---------------------------- MODULE Spec2Model ----------------------------
(***************************************************************************)
(* A model of the R3000A CPU core of pcsx-redux (src/src/core/r3000a.h):   *)
(* the delayed-load / delayed-PC hazard buffers, the instruction cache,    *)
(* the interrupt scheduler, the exception entry, the run loop around       *)
(* hasToRun and the kernel-call interception hook.                         *)
(*                                                                         *)
(* 32-bit words are pairs <<hi, lo>> of 16-bit halves, so that the full    *)
(* uint32_t range (0x80000000, 0xffffffff, ...) is represented exactly.    *)
(*                                                                         *)
(* The CD-ROM sector codes of src/src/core/iec-60908b-math.cc (the lookup  *)
(* tables and computeEDC) are modelled next to it.                         *)
(***************************************************************************)
EXTENDS Integers, Sequences, FiniteSets, TLC

VARIABLES
    GPR,                  \* m_regs.GPR.r[0..31]
    m_delayedLoadInfo,    \* the two hazard slots
    m_currentDelayedLoad, \* index of the current slot
    pc,                   \* m_regs.pc
    aborted,              \* abort() was called
    steps,                \* number of instruction steps run so far
    iCacheAddr,           \* m_regs.iCacheAddr, as 32-bit entries by byte offset
    iCacheCode,           \* m_regs.iCacheCode, as 32-bit entries by byte offset
    mem,                  \* the memory collaborator: physical address -> word
    lastFetch,            \* per address: the word its last fetch returned
    interrupt,            \* m_regs.interrupt, the bit mask of armed sources
    intTargets,           \* m_regs.intTargets
    lowestTarget,         \* m_regs.lowestTarget
    cycle,                \* m_regs.cycle
    CP0,                  \* m_regs.CP0: Status, Cause, EPC
    m_shellStarted,       \* the latch of the "shell reached" event
    running,              \* g_system->running(), the flag a stop request clears
    loc,                  \* where the caller of Execute is: idle, check or step
    shellSeen,            \* some hasToRun check has found pc at the shell address
    signals,              \* number of ShellReached events signalled so far
    kernelLog,            \* the KernelLog debug setting
    sink,                 \* the handlers the last InterceptBIOS call invoked, in order
    edcSeed,              \* the seed a checksum was started from
    edcSrc,               \* the bytes passed to computeEDC since then
    edcValue,             \* the value the last computeEDC call returned
    op,                   \* the last operation and what it observed
    prev                  \* the operation before the last one

hazardVars == <<GPR, m_delayedLoadInfo, m_currentDelayedLoad, pc, aborted, steps>>
cacheVars == <<iCacheAddr, iCacheCode>>
memVars == <<mem, lastFetch>>
irqVars == <<interrupt, intTargets, lowestTarget, cycle>>
runVars == <<m_shellStarted, running, loc, shellSeen, signals>>
biosVars == <<kernelLog, sink>>
edcVars == <<edcSeed, edcSrc, edcValue>>
engineVars == <<runVars, biosVars, edcVars>>
vars == <<hazardVars, cacheVars, memVars, irqVars, CP0, engineVars, op, prev>>

---------------------------------------------------------------------------
(* 32-bit words *)

W(hi, lo) == <<hi, lo>>
W0 == W(0, 0)

RECURSIVE BitAnd(_, _, _)
BitAnd(a, b, n) ==
    IF n = 0 THEN 0
    ELSE (a % 2) * (b % 2) + 2 * BitAnd(a \div 2, b \div 2, n - 1)

And16(a, b) == BitAnd(a, b, 16)
Or16(a, b) == a + b - And16(a, b)

WAnd(a, b) == <<And16(a[1], b[1]), And16(a[2], b[2])>>
WOr(a, b) == <<Or16(a[1], b[1]), Or16(a[2], b[2])>>
\* a + n and a - n modulo 2^32, for 0 <= n < 2^16
WAdd(a, n) ==
    LET s == a[2] + n
    IN  <<(a[1] + (s \div \h10000)) % \h10000, s % \h10000>>
WSub(a, n) ==
    LET s == a[2] - n
    IN  IF s >= 0 THEN <<a[1], s>> ELSE <<(a[1] + \hFFFF) % \h10000, s + \h10000>>

---------------------------------------------------------------------------
(* Delayed loads and delayed PC loads (r3000a.h:343-380) *)

Regs == 0 .. 31

\* struct m_delayedLoadInfo[i] with its default member initialisers
DelayedLoadInfo0 ==
    [index |-> 0, value |-> W0, mask |-> W0, pcValue |-> W0,
     active |-> FALSE, pcActive |-> FALSE, fromLink |-> FALSE]

\* The part of the CPU the hazard operations work on
HazardState ==
    [GPR |-> GPR, info |-> m_delayedLoadInfo, cur |-> m_currentDelayedLoad, pc |-> pc]

\* Mutant of delayedLoadRef: a slot that already holds a pending load keeps
\* the register index of the first call.
delayedLoadRefOp_KeepsFirstIndex(st, reg, mask) ==
    [st EXCEPT !.info[st.cur].active = TRUE,
               !.info[st.cur].index = IF st.info[st.cur].active THEN @ ELSE reg,
               !.info[st.cur].mask = mask]

\* Mutant of delayedLoadRef: the load is recorded in slot 0 whichever slot is
\* current.
delayedLoadRefOp_SlotZero(st, reg, mask) ==
    [st EXCEPT !.info[0].active = TRUE,
               !.info[0].index = reg,
               !.info[0].mask = mask]

\* uint32_t &delayedLoadRef(unsigned reg, uint32_t mask): reg < 32 here, the
\* abort is the action's other branch.  The value is left as it was.
delayedLoadRefOp(st, reg, mask) ==
    [st EXCEPT !.info[st.cur].active = TRUE,
               !.info[st.cur].index = reg,
               !.info[st.cur].mask = mask]

\* void delayedLoad(unsigned reg, uint32_t value, uint32_t mask)
delayedLoadOp(st, reg, value, mask) ==
    LET ref == delayedLoadRefOp(st, reg, mask)
    IN  [ref EXCEPT !.info[st.cur].value = value]

\* Mutant of delayedPCLoad: the target is stored but the slot is not marked
\* as holding a pending PC.
delayedPCLoadOp_NotMarked(st, value, fromLink) ==
    [st EXCEPT !.info[st.cur].pcValue = value,
               !.info[st.cur].fromLink = fromLink]

\* Mutant of delayedPCLoad: recording the pending PC drops the pending load
\* of the slot.
delayedPCLoadOp_DropsLoad(st, value, fromLink) ==
    [st EXCEPT !.info[st.cur].pcActive = TRUE,
               !.info[st.cur].pcValue = value,
               !.info[st.cur].fromLink = fromLink,
               !.info[st.cur].active = FALSE]

\* void delayedPCLoad(uint32_t value, bool fromLink)
delayedPCLoadOp(st, value, fromLink) ==
    [st EXCEPT !.info[st.cur].pcActive = TRUE,
               !.info[st.cur].pcValue = value,
               !.info[st.cur].fromLink = fromLink]

\* Mutant of flushCurrentDelayedLoad: the old register value is not masked
\* before the pending value is merged in.
flushCurrentDelayedLoadOp_NoMask(st) ==
    LET delayedLoad == st.info[st.cur]
    IN  IF delayedLoad.active
        THEN [st EXCEPT !.GPR[delayedLoad.index] = WOr(@, delayedLoad.value),
                        !.info[st.cur].active = FALSE]
        ELSE st

\* Mutant of flushCurrentDelayedLoad: the mask selects the bits taken from the
\* pending value instead of the bits kept from the register.
flushCurrentDelayedLoadOp_MaskSelectsNew(st) ==
    LET delayedLoad == st.info[st.cur]
        keep == <<\hFFFF - delayedLoad.mask[1], \hFFFF - delayedLoad.mask[2]>>
    IN  IF delayedLoad.active
        THEN [st EXCEPT !.GPR[delayedLoad.index] =
                            WOr(WAnd(@, keep), WAnd(delayedLoad.value, delayedLoad.mask)),
                        !.info[st.cur].active = FALSE]
        ELSE st

\* Mutant of flushCurrentDelayedLoad: the slot stays active after the commit.
flushCurrentDelayedLoadOp_StaysActive(st) ==
    LET delayedLoad == st.info[st.cur]
    IN  IF delayedLoad.active
        THEN [st EXCEPT !.GPR[delayedLoad.index] =
                            WOr(WAnd(@, delayedLoad.mask), delayedLoad.value)]
        ELSE st

\* void flushCurrentDelayedLoad()
flushCurrentDelayedLoadOp(st) ==
    LET delayedLoad == st.info[st.cur]
    IN  IF delayedLoad.active
        THEN [st EXCEPT !.GPR[delayedLoad.index] =
                            WOr(WAnd(@, delayedLoad.mask), delayedLoad.value),
                        !.info[st.cur].active = FALSE]
        ELSE st


---------------------------------------------------------------------------
(* Inputs of the hazard operations *)

MaxSteps == 4

ValA == W(\h1234, \h5600)
ValB == W(\h0000, \h00AB)
\* MASKS[0] and MASKS[1] = LWL_MASK[0] (r3000a.h:384-385)
MaskNone == W(\h0000, \h0000)
MaskLWL0 == W(\h00FF, \hFFFF)

LoadRegs == {0, 1, 2}
\* (value, mask) pairs a load instruction passes: a full-word load and an LWL
LoadArgs == {<<ValA, MaskNone>>, <<ValB, MaskLWL0>>}
BadReg == 32

ResetPC == W(\hBFC0, \h0000)
TargetA == W(\h8001, \h0000)
TargetB == W(\h8002, \h0040)
\* (target, fromLink) pairs a branch or jump passes
JumpArgs == {<<TargetA, FALSE>>, <<TargetB, TRUE>>}

NoOp ==
    [kind |-> "none", instr |-> "none", reg |-> 0, value |-> W0, mask |-> W0,
     link |-> FALSE, fetched |-> W0]

Instrs ==
    {[NoOp EXCEPT !.kind = "step", !.instr = "nop"]}
    \cup {[NoOp EXCEPT !.kind = "step", !.instr = "load", !.reg = r,
                       !.value = a[1], !.mask = a[2]] : r \in LoadRegs, a \in LoadArgs}
    \cup {[NoOp EXCEPT !.kind = "step", !.instr = "jump",
                       !.value = j[1], !.link = j[2]] : j \in JumpArgs}

---------------------------------------------------------------------------
(* Hazard actions *)

\* History: the operation just run becomes op, the one before it prev
Record(o) ==
    /\ op' = o
    /\ prev' = op

SetHazard(st) ==
    /\ GPR' = st.GPR
    /\ m_delayedLoadInfo' = st.info
    /\ m_currentDelayedLoad' = st.cur
    /\ pc' = st.pc

\* Mutant of the range check of delayedLoadRef: off by one
delayedLoadRefAborts_OffByOne(reg) == reg > 32

\* if (reg >= 32) abort();
delayedLoadRefAborts(reg) == reg >= 32

\* delayedLoadRef called on its own: the caller has not (yet) written the value
delayedLoadRef(reg, mask) ==
    /\ ~aborted
    /\ IF delayedLoadRefAborts(reg)
       THEN /\ aborted' = TRUE
            /\ UNCHANGED <<GPR, m_delayedLoadInfo, m_currentDelayedLoad, pc>>
       ELSE /\ SetHazard(delayedLoadRefOp(HazardState, reg, mask))
            /\ UNCHANGED aborted
    /\ Record([NoOp EXCEPT !.kind = "delayedLoadRef", !.reg = reg, !.mask = mask])
    /\ UNCHANGED <<steps, cacheVars, memVars, irqVars, CP0, engineVars>>

delayedLoad(reg, value, mask) ==
    /\ ~aborted
    /\ IF delayedLoadRefAborts(reg)
       THEN /\ aborted' = TRUE
            /\ UNCHANGED <<GPR, m_delayedLoadInfo, m_currentDelayedLoad, pc>>
       ELSE /\ SetHazard(delayedLoadOp(HazardState, reg, value, mask))
            /\ UNCHANGED aborted
    /\ Record([NoOp EXCEPT !.kind = "delayedLoad", !.reg = reg, !.value = value,
                            !.mask = mask])
    /\ UNCHANGED <<steps, cacheVars, memVars, irqVars, CP0, engineVars>>

delayedPCLoad(value, fromLink) ==
    /\ ~aborted
    /\ SetHazard(delayedPCLoadOp(HazardState, value, fromLink))
    /\ Record([NoOp EXCEPT !.kind = "delayedPCLoad", !.value = value, !.link = fromLink])
    /\ UNCHANGED <<aborted, steps, cacheVars, memVars, irqVars, CP0, engineVars>>

flushCurrentDelayedLoad ==
    /\ ~aborted
    /\ SetHazard(flushCurrentDelayedLoadOp(HazardState))
    /\ Record([NoOp EXCEPT !.kind = "flush"])
    /\ UNCHANGED <<aborted, steps, cacheVars, memVars, irqVars, CP0, engineVars>>

\* One instruction of the execution loop: fetch at pc, advance pc, run the
\* instruction (which may record a delayed load or a delayed PC in the current
\* slot), alternate the slot, flush the slot now current, then apply its
\* delayed PC.
ExecInstr(st, i) ==
    CASE i.instr = "load" -> delayedLoadOp(st, i.reg, i.value, i.mask)
      [] i.instr = "jump" -> delayedPCLoadOp(st, i.value, i.link)
      [] OTHER -> st

AlternateSlot(st) == [st EXCEPT !.cur = 1 - st.cur]

ApplyDelayedPC(st) ==
    IF st.info[st.cur].pcActive
    THEN [st EXCEPT !.pc = st.info[st.cur].pcValue, !.info[st.cur].pcActive = FALSE]
    ELSE st

StepOp(st, i) ==
    LET fetchedSt == [st EXCEPT !.pc = WAdd(st.pc, 4)]
    IN  ApplyDelayedPC(flushCurrentDelayedLoadOp(AlternateSlot(ExecInstr(fetchedSt, i))))

Step(i) ==
    /\ ~aborted
    /\ steps < MaxSteps
    /\ SetHazard(StepOp(HazardState, i))
    /\ Record([i EXCEPT !.fetched = pc])
    /\ steps' = steps + 1
    /\ UNCHANGED <<aborted, cacheVars, memVars, irqVars, CP0, engineVars>>

HazardInit ==
    /\ GPR = [r \in Regs |-> W0]
    /\ m_delayedLoadInfo = [s \in {0, 1} |-> DelayedLoadInfo0]
    /\ m_currentDelayedLoad = 0
    /\ pc = ResetPC
    /\ aborted = FALSE
    /\ steps = 0

---------------------------------------------------------------------------
(* Instruction cache (r3000a.h:461-529) and the memory it reads *)

\* pc >> 24, pc & 0xffffff, pc & 0xfff
pcBankOf(a) == a[1] \div \h100
pcOffsetOf(a) == <<a[1] % \h100, a[2]>>
pcCacheOf(a) == a[2] % \h1000
\* x & ~0xf on a byte offset and on a word
LineIndex(x) == x - (x % \h10)
WLine(a) == <<a[1], LineIndex(a[2])>>
\* Mutant of the bank test: the uncached mirror 0xa0 is treated as cacheable.
Cacheable_Kseg1Too(a) == pcBankOf(a) \in {\h00, \h80, \hA0}

\* pcBank == 0x00 || pcBank == 0x80
Cacheable(a) == pcBankOf(a) \in {\h00, \h80}

\* memset(..., 0xff, ...) and the word flushICacheLine stores
WInvalid == W(\hFFFF, \hFFFF)
WFlushed == W(\h0000, \h00FF)

\* Word-aligned fetch addresses: KSEG0, its KUSEG and KSEG1 (uncached)
\* aliases, an address 0x1000 further that maps to another word of the same
\* cache line, and an address of the next line.
AddrK0 == W(\h8000, \h0010)
AddrKU == W(\h0000, \h0010)
AddrK1 == W(\hA000, \h0010)
AddrConflict == W(\h8000, \h1014)
AddrNextLine == W(\h8000, \h0024)
FetchAddrs == {AddrK0, AddrKU, AddrK1, AddrConflict, AddrNextLine}

LineOffsets == {0, 4, 8, 12}
\* The byte offsets of iCacheAddr / iCacheCode the fetch addresses can touch;
\* the other entries of the 0x1000-byte arrays are never read or written.
CacheIdx == {LineIndex(pcCacheOf(a)) + k : a \in FetchAddrs, k \in LineOffsets}

\* The memory collaborator decodes the three windows to one physical address
Phys(a) == <<a[1] % \h2000, a[2]>>
PhysWords == {Phys(WAdd(WLine(a), k)) : a \in FetchAddrs, k \in LineOffsets}
read32(m, a) == m[Phys(a)]
MemInit == [p \in PhysWords |-> W(\h2400, p[2])]
NewCode == W(\h0000, \h000D)
StoreAddrs == {AddrK0, AddrConflict}

CacheState == [iAddr |-> iCacheAddr, iCode |-> iCacheCode, mem |-> mem]

\* Mutant of invalidateCache: only the cached words are overwritten, the tags
\* are kept
invalidateCacheOp_CodeOnly(st) ==
    [st EXCEPT !.iCode = [i \in CacheIdx |-> WInvalid]]

\* virtual void invalidateCache()
invalidateCacheOp(st) ==
    [st EXCEPT !.iAddr = [i \in CacheIdx |-> WInvalid],
               !.iCode = [i \in CacheIdx |-> WInvalid]]

\* Mutant of flushICacheLine: only the addressed entry is invalidated, not
\* the four entries of its line.
flushICacheLineOp_OneEntry(st, a) ==
    IF Cacheable(a)
    THEN [st EXCEPT !.iAddr[pcCacheOf(a)] = WFlushed,
                    !.iCode[pcCacheOf(a)] = WFlushed]
    ELSE st

\* Mutant of flushICacheLine: the tags and words of every line are
\* overwritten, not only those of the line of pc.
flushICacheLineOp_EveryLine(st, a) ==
    IF Cacheable(a)
    THEN [st EXCEPT !.iAddr = [i \in CacheIdx |-> WFlushed],
                    !.iCode = [i \in CacheIdx |-> WFlushed]]
    ELSE st

\* inline void flushICacheLine(uint32_t pc)
flushICacheLineOp(st, a) ==
    IF Cacheable(a)
    THEN LET pcCache == LineIndex(pcCacheOf(a))
         IN  [st EXCEPT !.iAddr = [i \in CacheIdx |->
                                      IF i \in {pcCache + k : k \in LineOffsets}
                                      THEN WFlushed ELSE @[i]],
                        !.iCode = [i \in CacheIdx |->
                                      IF i \in {pcCache + k : k \in LineOffsets}
                                      THEN WFlushed ELSE @[i]]]
    ELSE st

\* Mutant of readICache: the tags are stored from the full pc instead of
\* pc & 0xffffff.
readICacheOp_FullTag(st, a) ==
    IF Cacheable(a)
    THEN IF st.iAddr[pcCacheOf(a)] = pcOffsetOf(a)
         THEN [st |-> st, path |-> "hit", reads |-> <<>>,
               result |-> st.iCode[pcCacheOf(a)]]
         ELSE LET pcCache == LineIndex(pcCacheOf(a))
                  line == {pcCache + k : k \in LineOffsets}
              IN  [st |-> [st EXCEPT
                              !.iAddr = [i \in CacheIdx |->
                                  IF i \in line THEN WAdd(WLine(a), i - pcCache)
                                  ELSE @[i]],
                              !.iCode = [i \in CacheIdx |->
                                  IF i \in line
                                  THEN read32(st.mem, WAdd(WLine(a), i - pcCache))
                                  ELSE @[i]]],
                   path |-> "miss",
                   reads |-> <<WLine(a), WAdd(WLine(a), 4), WAdd(WLine(a), 8),
                               WAdd(WLine(a), 12), a>>,
                   result |-> read32(st.mem, a)]
    ELSE [st |-> st, path |-> "uncached", reads |-> <<a>>, result |-> read32(st.mem, a)]

\* Mutant of readICache: on a tag match the word is read from memory again
\* instead of being taken from the cache.
readICacheOp_ReadThrough(st, a) ==
    IF Cacheable(a) /\ st.iAddr[pcCacheOf(a)] # pcOffsetOf(a)
    THEN LET pcCache == LineIndex(pcCacheOf(a))
             line == {pcCache + k : k \in LineOffsets}
             pcOffset == WLine(pcOffsetOf(a))
         IN  [st |-> [st EXCEPT
                         !.iAddr = [i \in CacheIdx |->
                             IF i \in line THEN WAdd(pcOffset, i - pcCache)
                             ELSE @[i]],
                         !.iCode = [i \in CacheIdx |->
                             IF i \in line
                             THEN read32(st.mem, WAdd(WLine(a), i - pcCache))
                             ELSE @[i]]],
              path |-> "miss",
              reads |-> <<WLine(a), WAdd(WLine(a), 4), WAdd(WLine(a), 8),
                          WAdd(WLine(a), 12), a>>,
              result |-> read32(st.mem, a)]
    ELSE [st |-> st, path |-> IF Cacheable(a) THEN "hit" ELSE "uncached",
          reads |-> <<a>>, result |-> read32(st.mem, a)]

\* Mutant of readICache: on a miss only the entry of the requested word is
\* filled, the other three entries of the line are left as they were.
readICacheOp_OneEntry(st, a) ==
    IF Cacheable(a)
    THEN IF st.iAddr[pcCacheOf(a)] = pcOffsetOf(a)
         THEN [st |-> st, path |-> "hit", reads |-> <<>>,
               result |-> st.iCode[pcCacheOf(a)]]
         ELSE [st |-> [st EXCEPT !.iAddr[pcCacheOf(a)] = pcOffsetOf(a),
                                 !.iCode[pcCacheOf(a)] = read32(st.mem, a)],
               path |-> "miss", reads |-> <<a, a>>, result |-> read32(st.mem, a)]
    ELSE [st |-> st, path |-> "uncached", reads |-> <<a>>, result |-> read32(st.mem, a)]

\* inline uint32_t readICache(uint32_t pc), on a little-endian host (SWAP_LE32
\* is the identity).  Gives the new state, the path taken, the addresses read
\* from memory in order, and the word returned.  On a miss the four words of
\* the line are read into the cache and the function then falls through to its
\* last line, which reads the requested word from memory again.
readICacheOp(st, a) ==
    IF Cacheable(a)
    THEN IF st.iAddr[pcCacheOf(a)] = pcOffsetOf(a)
         THEN [st |-> st, path |-> "hit", reads |-> <<>>,
               result |-> st.iCode[pcCacheOf(a)]]
         ELSE LET pcCache == LineIndex(pcCacheOf(a))
                  line == {pcCache + k : k \in LineOffsets}
                  pcOffset == WLine(pcOffsetOf(a))
              IN  [st |-> [st EXCEPT
                              !.iAddr = [i \in CacheIdx |->
                                  IF i \in line THEN WAdd(pcOffset, i - pcCache)
                                  ELSE @[i]],
                              !.iCode = [i \in CacheIdx |->
                                  IF i \in line
                                  THEN read32(st.mem, WAdd(WLine(a), i - pcCache))
                                  ELSE @[i]]],
                   path |-> "miss",
                   reads |-> <<WLine(a), WAdd(WLine(a), 4), WAdd(WLine(a), 8),
                               WAdd(WLine(a), 12), a>>,
                   result |-> read32(st.mem, a)]
    ELSE [st |-> st, path |-> "uncached", reads |-> <<a>>, result |-> read32(st.mem, a)]

\* Clear(Addr, Size): the cache lines the byte range [Addr, Addr + Size)
\* touches are invalidated one by one with flushICacheLine.
RECURSIVE ClearLines(_, _, _)
ClearLines(st, a, last) ==
    IF a[2] > last[2] THEN st
    ELSE ClearLines(flushICacheLineOp(st, a), WAdd(a, 16), last)

ClearOp(st, a, size) == ClearLines(st, WLine(a), WLine(WAdd(a, size - 1)))

\* a is inside [base, base + size); the ranges used do not cross a 64 KiB page
InRange(a, base, size) ==
    /\ a[1] = base[1]
    /\ base[2] <= a[2]
    /\ a[2] < base[2] + size

\* The cache lines an address and a range occupy
SameCacheLine(a, b) == LineIndex(pcCacheOf(a)) = LineIndex(pcCacheOf(b))
RangeTouchesLine(a, base, size) ==
    \E l \in {LineIndex(pcCacheOf(base)) + 16 * n : n \in 0 .. (size \div 16) + 1} :
        /\ l <= LineIndex(pcCacheOf(WAdd(base, size - 1)))
        /\ l = LineIndex(pcCacheOf(a))

CacheNoOp ==
    [kind |-> "none", addr |-> W0, size |-> 0, path |-> "none", reads |-> <<>>,
     result |-> W0]

NeverFetched == [ok |-> FALSE, w |-> W0, evicted |-> FALSE]

SetCache(st) ==
    /\ iCacheAddr' = st.iAddr
    /\ iCacheCode' = st.iCode
    /\ mem' = st.mem

\* History of fetches: lastFetch[a].ok while a has been fetched and its cache
\* line not invalidated since; .evicted once another block was filled into
\* its line since.
readICache(a) ==
    LET r == readICacheOp(CacheState, a)
    IN  /\ SetCache(r.st)
        /\ lastFetch' =
               [b \in FetchAddrs |->
                   IF b = a THEN [ok |-> TRUE, w |-> r.result, evicted |-> FALSE]
                   ELSE IF /\ r.path = "miss"
                           /\ SameCacheLine(a, b)
                           /\ WLine(pcOffsetOf(a)) # WLine(pcOffsetOf(b))
                        THEN [lastFetch[b] EXCEPT !.evicted = TRUE]
                        ELSE lastFetch[b]]
        /\ op' = [CacheNoOp EXCEPT !.kind = "readICache", !.addr = a, !.path = r.path,
                                   !.reads = r.reads, !.result = r.result]
        /\ UNCHANGED <<hazardVars, irqVars, CP0, prev, engineVars>>

flushICacheLine(a) ==
    /\ SetCache(flushICacheLineOp(CacheState, a))
    /\ lastFetch' = [b \in FetchAddrs |->
                        IF Cacheable(a) /\ SameCacheLine(a, b)
                        THEN NeverFetched ELSE lastFetch[b]]
    /\ op' = [CacheNoOp EXCEPT !.kind = "flushICacheLine", !.addr = a]
    /\ UNCHANGED <<hazardVars, irqVars, CP0, prev, engineVars>>

invalidateCache ==
    /\ SetCache(invalidateCacheOp(CacheState))
    /\ lastFetch' = [b \in FetchAddrs |-> NeverFetched]
    /\ op' = [CacheNoOp EXCEPT !.kind = "invalidateCache"]
    /\ UNCHANGED <<hazardVars, irqVars, CP0, prev, engineVars>>

Clear(a, size) ==
    /\ SetCache(ClearOp(CacheState, a, size))
    /\ lastFetch' = [b \in FetchAddrs |->
                        IF Cacheable(a) /\ RangeTouchesLine(b, a, size)
                        THEN NeverFetched ELSE lastFetch[b]]
    /\ op' = [CacheNoOp EXCEPT !.kind = "Clear", !.addr = a, !.size = size]
    /\ UNCHANGED <<hazardVars, irqVars, CP0, prev, engineVars>>

\* A store by the guest that is not followed by Clear
WriteMem(a, v) ==
    /\ mem' = [mem EXCEPT ![Phys(a)] = v]
    /\ op' = [CacheNoOp EXCEPT !.kind = "write", !.addr = a, !.result = v]
    /\ UNCHANGED <<hazardVars, cacheVars, lastFetch, irqVars, CP0, prev, engineVars>>

CacheInit ==
    /\ iCacheAddr = [i \in CacheIdx |-> WInvalid]
    /\ iCacheCode = [i \in CacheIdx |-> WInvalid]
    /\ mem = MemInit
    /\ lastFetch = [a \in FetchAddrs |-> NeverFetched]

ClearArgs == {<<AddrK0, 4>>, <<AddrK0, 24>>, <<AddrK1, 4>>, <<AddrConflict, 4>>}

---------------------------------------------------------------------------
(* Interrupt scheduling (r3000a.h:317-339) *)

PSXINT_SIO == 0
PSXINT_CDR == 2
PSXINT_CDRPLAY == 14
NumSources == 15
IntTargetSlots == 32

MaxCycle == 4

\* The sources and delays the model schedules
Sources == {PSXINT_SIO, PSXINT_CDR, PSXINT_CDRPLAY}
ECycles == {1, 3}
\* Delays for the arming post-state: a small one and one above 2^24, which
\* the conversion to float rounds
BigECycle == \h1000001
WideECycles == {3, BigECycle}
\* m_regs has no initialisers: lowestTarget starts with whatever its storage
\* held, here zero, a small value or a value beyond every deadline.
FarTarget == \h40000000
LowestTargetInit == {0, 2, FarTarget}

\* m_interruptScales: 1.0f for every source
m_interruptScales == [s \in 0 .. NumSources - 1 |-> 1]

\* Mutant of the armed test: the bit two places up is tested
Armed_WrongBit(mask, s) == (mask \div (2 ^ (s + 2))) % 2 = 1

\* interrupt & (1 << s), interrupt | (1 << s), interrupt & ~(1 << s)
Armed(mask, s) == (mask \div (2 ^ s)) % 2 = 1
SetBit(mask, s) == IF Armed(mask, s) THEN mask ELSE mask + 2 ^ s
ClearBit(mask, s) == IF Armed(mask, s) THEN mask - 2 ^ s ELSE mask

\* uint32_t -> float: round to nearest, ties to even, on a 24-bit significand
RECURSIVE FloatUlp(_)
FloatUlp(n) == IF n < \h1000000 THEN 1 ELSE 2 * FloatUlp(n \div 2)

ToFloat(n) ==
    LET q == FloatUlp(n)
        r == n % q
        d == n - r
    IN  IF 2 * r < q THEN d
        ELSE IF 2 * r > q THEN d + q
        ELSE IF (d \div q) % 2 = 0 THEN d ELSE d + q

\* uint64_t(eCycle * m_interruptScales[interrupt])
ScaledCycles(eCycle, s) == ToFloat(eCycle) * m_interruptScales[s]

IrqState ==
    [interrupt |-> interrupt, intTargets |-> intTargets,
     lowestTarget |-> lowestTarget, cycle |-> cycle]

\* Mutant of scheduleInterrupt: the early return for an armed source is missing
scheduleInterruptOp_NoGuard(st, s, eCycle) ==
    LET target == st.cycle + ScaledCycles(eCycle, s)
    IN  [st EXCEPT !.interrupt = SetBit(@, s),
                   !.intTargets[s] = target,
                   !.lowestTarget = IF target < @ THEN target ELSE @]

\* Mutant of scheduleInterrupt: the cached lowest target is not lowered
scheduleInterruptOp_NoLower(st, s, eCycle) ==
    IF Armed(st.interrupt, s) THEN st
    ELSE LET target == st.cycle + ScaledCycles(eCycle, s)
         IN  [st EXCEPT !.interrupt = SetBit(@, s),
                        !.intTargets[s] = target]

\* Mutant of scheduleInterrupt: the comparison with the cached lowest target
\* is reversed
scheduleInterruptOp_Reversed(st, s, eCycle) ==
    IF Armed(st.interrupt, s) THEN st
    ELSE LET target == st.cycle + ScaledCycles(eCycle, s)
         IN  [st EXCEPT !.interrupt = SetBit(@, s),
                        !.intTargets[s] = target,
                        !.lowestTarget = IF target > @ THEN target ELSE @]

\* Mutant of scheduleInterrupt: the cached lowest target is overwritten with
\* every new target
scheduleInterruptOp_Overwrite(st, s, eCycle) ==
    IF Armed(st.interrupt, s) THEN st
    ELSE LET target == st.cycle + ScaledCycles(eCycle, s)
         IN  [st EXCEPT !.interrupt = SetBit(@, s),
                        !.intTargets[s] = target,
                        !.lowestTarget = target]

\* Mutant of scheduleInterrupt: the target is not offset by the current cycle
scheduleInterruptOp_NoOffset(st, s, eCycle) ==
    IF Armed(st.interrupt, s) THEN st
    ELSE LET target == ScaledCycles(eCycle, s)
         IN  [st EXCEPT !.interrupt = SetBit(@, s),
                        !.intTargets[s] = target,
                        !.lowestTarget = IF target < @ THEN target ELSE @]

\* void scheduleInterrupt(unsigned interrupt, uint32_t eCycle)
scheduleInterruptOp(st, s, eCycle) ==
    IF Armed(st.interrupt, s) THEN st
    ELSE LET target == st.cycle + ScaledCycles(eCycle, s)
         IN  [st EXCEPT !.interrupt = SetBit(@, s),
                        !.intTargets[s] = target,
                        !.lowestTarget = IF target < @ THEN target ELSE @]

SetIrq(st) ==
    /\ interrupt' = st.interrupt
    /\ intTargets' = st.intTargets
    /\ lowestTarget' = st.lowestTarget
    /\ cycle' = st.cycle

IrqNoOp ==
    [kind |-> "none", source |-> 0, eCycle |-> 0, wasArmed |-> FALSE,
     dispatched |-> <<>>]

scheduleInterrupt(s, eCycle) ==
    /\ SetIrq(scheduleInterruptOp(IrqState, s, eCycle))
    /\ op' = [IrqNoOp EXCEPT !.kind = "scheduleInterrupt", !.source = s,
                             !.eCycle = eCycle, !.wasArmed = Armed(interrupt, s)]
    /\ UNCHANGED <<hazardVars, cacheVars, memVars, CP0, prev, engineVars>>

\* The branch test: when a source is armed and the cycle counter has reached
\* the cached lowest target, every armed source whose own deadline has been
\* reached is disarmed and dispatched, earliest deadline first (sources with
\* equal deadlines in any order).  The cached lowest target is left as it is.
DueSources(st) ==
    IF st.interrupt # 0 /\ st.cycle >= st.lowestTarget
    THEN {s \in 0 .. NumSources - 1 :
             Armed(st.interrupt, s) /\ st.intTargets[s] <= st.cycle}
    ELSE {}

RECURSIVE ClearBits(_, _)
ClearBits(mask, ss) ==
    IF ss = {} THEN mask
    ELSE LET s == CHOOSE x \in ss : TRUE
         IN  ClearBits(ClearBit(mask, s), ss \ {s})

DispatchOrders(st) ==
    LET due == DueSources(st)
        n == Cardinality(due)
    IN  {q \in [1 .. n -> due] :
            /\ \A i, j \in 1 .. n : i # j => q[i] # q[j]
            /\ \A i, j \in 1 .. n :
                   i < j => st.intTargets[q[i]] <= st.intTargets[q[j]]}

branchTestOp(st) == [st EXCEPT !.interrupt = ClearBits(@, DueSources(st))]

branchTest ==
    /\ \E q \in DispatchOrders(IrqState) :
           op' = [IrqNoOp EXCEPT !.kind = "branchTest", !.dispatched = q]
    /\ SetIrq(branchTestOp(IrqState))
    /\ UNCHANGED <<hazardVars, cacheVars, memVars, CP0, prev, engineVars>>

\* Instructions run and the cycle counter advances
AdvanceCycle ==
    /\ cycle < MaxCycle
    /\ cycle' = cycle + 1
    /\ op' = [IrqNoOp EXCEPT !.kind = "advance"]
    /\ UNCHANGED <<interrupt, intTargets, lowestTarget>>
    /\ UNCHANGED <<hazardVars, cacheVars, memVars, CP0, prev, engineVars>>

\* virtual void Reset(): invalidateCache(); m_regs.interrupt = 0;
Reset ==
    /\ SetCache(invalidateCacheOp(CacheState))
    /\ lastFetch' = [b \in FetchAddrs |-> NeverFetched]
    /\ interrupt' = 0
    /\ op' = [kind |-> "Reset", wasArmed |-> interrupt # 0,
              wasCached |-> \E i \in CacheIdx : iCacheAddr[i] # WInvalid]
    /\ UNCHANGED <<hazardVars, intTargets, lowestTarget, cycle, CP0, prev, engineVars>>

IrqInitWith(lt) ==
    /\ interrupt = 0
    /\ intTargets = [s \in 0 .. IntTargetSlots - 1 |-> 0]
    /\ lowestTarget = lt
    /\ cycle = 0

---------------------------------------------------------------------------
(* Exception entry (r3000a.h:301-316) *)

\* enum class Exception
Exceptions == {0, 4, 5, 6, 7, 8, 9, 10, 11, 12}

\* Cause: branch-delay bit (31) and coprocessor bit (28); Status: the
\* boot-vector bit (22) and the interrupt-enable / mode stack (bits 0-5)
CauseBD == W(\h8000, \h0000)
CauseCE == W(\h1000, \h0000)
StatusBEV == W(\h0040, \h0000)
VectorBoot == W(\hBFC0, \h0180)
VectorRam == W(\h8000, \h0080)
StatusBoot == W(\h1090, \h0000)
StatusRunning == W(\h1000, \h0401)
StatusValues == {StatusBoot, StatusRunning}

HasBit(w, b) == WAnd(w, b) # W0

ExcState == [hz |-> HazardState, CP0 |-> CP0]

\* void exception(uint32_t code, bool bd, bool cop0): declared at r3000a.h:316,
\* defined outside the sources at hand.
exceptionOp(st, code, bd, cop0) ==
    LET cause == WOr(code, WOr(IF bd THEN CauseBD ELSE W0,
                                IF cop0 THEN CauseCE ELSE W0))
        epc == IF bd THEN WSub(st.hz.pc, 4) ELSE st.hz.pc
        status == <<st.CP0.Status[1],
                    (st.CP0.Status[2] - (st.CP0.Status[2] % 64))
                        + ((st.CP0.Status[2] % 16) * 4)>>
        vector == IF HasBit(st.CP0.Status, StatusBEV) THEN VectorBoot ELSE VectorRam
    IN  [hz |-> delayedPCLoadOp(st.hz, vector, FALSE),
         CP0 |-> [Status |-> status, Cause |-> cause, EPC |-> epc]]

\* Mutant of exception(Exception, bool, bool): the two flags are passed on in
\* the wrong order
exceptionEnumOp_FlagsSwapped(st, e, bd, cop0) ==
    exceptionOp(st, W(0, (e * 4) % \h10000), cop0, bd)

\* Mutant of exception(Exception, bool, bool): the delay-slot flag is dropped
exceptionEnumOp_BdDropped(st, e, bd, cop0) ==
    exceptionOp(st, W(0, (e * 4) % \h10000), FALSE, cop0)

\* Mutant of exception(Exception, bool, bool): the class is passed on without
\* the shift
exceptionEnumOp_NoShift(st, e, bd, cop0) ==
    exceptionOp(st, W(0, e % \h10000), bd, cop0)

\* void exception(Exception e, bool bd, bool cop0 = false)
exceptionEnumOp(st, e, bd, cop0) ==
    exceptionOp(st, W(0, (e * 4) % \h10000), bd, cop0)

ExcNoOp == [kind |-> "none", e |-> 0, bd |-> FALSE, cop0 |-> FALSE, pc |-> W0]

exception(e, bd, cop0) ==
    /\ ~aborted
    /\ LET r == exceptionEnumOp(ExcState, e, bd, cop0)
       IN  /\ SetHazard(r.hz)
           /\ CP0' = r.CP0
    /\ op' = [ExcNoOp EXCEPT !.kind = "exception", !.e = e, !.bd = bd,
                             !.cop0 = cop0, !.pc = pc]
    /\ UNCHANGED <<aborted, steps, cacheVars, memVars, irqVars, prev, engineVars>>

\* The guest writes the status register
WriteStatus(v) ==
    /\ CP0' = [CP0 EXCEPT !.Status = v]
    /\ op' = [ExcNoOp EXCEPT !.kind = "writeStatus"]
    /\ UNCHANGED <<hazardVars, cacheVars, memVars, irqVars, prev, engineVars>>

ExcInit == CP0 = [Status |-> StatusBoot, Cause |-> W0, EPC |-> W0]

---------------------------------------------------------------------------
(* The run loop: hasToRun (r3000a.h:395-404) and the caller of Execute *)

\* if (pc == 0x80030000)
ShellPC == W(\h8003, \h0000)

RunState == [m_shellStarted |-> m_shellStarted, pc |-> pc, running |-> running]

\* Mutant of hasToRun: the latch is never set
hasToRunOp_NoLatch(st) ==
    LET reached == ~st.m_shellStarted /\ st.pc = ShellPC
    IN  [m_shellStarted |-> st.m_shellStarted, signal |-> reached,
         result |-> st.running]

\* Mutant of hasToRun: the check that signals the event reports a stop
hasToRunOp_StopsAtShell(st) ==
    LET reached == ~st.m_shellStarted /\ st.pc = ShellPC
    IN  [m_shellStarted |-> st.m_shellStarted \/ reached, signal |-> reached,
         result |-> st.running /\ ~reached]

\* inline bool hasToRun(): the latch after the call, whether ShellReached was
\* signalled, and the value returned
hasToRunOp(st) ==
    LET reached == ~st.m_shellStarted /\ st.pc = ShellPC
    IN  [m_shellStarted |-> st.m_shellStarted \/ reached, signal |-> reached,
         result |-> st.running]

\* The instructions the loop runs: a nop and jumps to and away from the shell
RunInstrs ==
    {[NoOp EXCEPT !.kind = "step", !.instr = "nop"],
     [NoOp EXCEPT !.kind = "step", !.instr = "jump", !.value = ShellPC],
     [NoOp EXCEPT !.kind = "step", !.instr = "jump", !.value = TargetA]}

RunNoOp ==
    [kind |-> "none", pc |-> W0, result |-> FALSE, signal |-> FALSE,
     stopped |-> FALSE, loc |-> "idle"]

\* Execute(): while (hasToRun()) run one instruction.  The caller enters the
\* loop; the first thing it does is the check.
Execute ==
    /\ loc = "idle"
    /\ loc' = "check"
    /\ Record([RunNoOp EXCEPT !.kind = "Execute"])
    /\ UNCHANGED <<m_shellStarted, running, shellSeen, signals, biosVars, edcVars>>
    /\ UNCHANGED <<hazardVars, cacheVars, memVars, irqVars, CP0>>

\* The check between two instructions
hasToRun ==
    /\ loc = "check"
    /\ LET r == hasToRunOp(RunState)
       IN  /\ m_shellStarted' = r.m_shellStarted
           /\ signals' = signals + (IF r.signal THEN 1 ELSE 0)
           /\ loc' = IF r.result THEN "step" ELSE "idle"
           /\ Record([RunNoOp EXCEPT !.kind = "hasToRun", !.pc = pc,
                                     !.result = r.result, !.signal = r.signal])
    /\ shellSeen' = (shellSeen \/ pc = ShellPC)
    /\ UNCHANGED <<running, biosVars, edcVars>>
    /\ UNCHANGED <<hazardVars, cacheVars, memVars, irqVars, CP0>>

\* The instruction the check let through runs to its end, whatever the
\* running flag has become meanwhile
ExecuteStep(i) ==
    /\ loc = "step"
    /\ ~aborted
    /\ steps < MaxSteps
    /\ SetHazard(StepOp(HazardState, i))
    /\ steps' = steps + 1
    /\ loc' = "check"
    /\ Record([RunNoOp EXCEPT !.kind = "step", !.pc = pc, !.stopped = ~running])
    /\ UNCHANGED <<m_shellStarted, running, shellSeen, signals, biosVars, edcVars>>
    /\ UNCHANGED <<aborted, cacheVars, memVars, irqVars, CP0>>

\* A stop is requested (debug break, shutdown), at any point of the loop
stop ==
    /\ running
    /\ running' = FALSE
    /\ Record([RunNoOp EXCEPT !.kind = "stop", !.loc = loc])
    /\ UNCHANGED <<m_shellStarted, loc, shellSeen, signals, biosVars, edcVars>>
    /\ UNCHANGED <<hazardVars, cacheVars, memVars, irqVars, CP0>>

\* The caller sets the system running before it calls Execute
start ==
    /\ loc = "idle"
    /\ ~running
    /\ running' = TRUE
    /\ Record([RunNoOp EXCEPT !.kind = "start"])
    /\ UNCHANGED <<m_shellStarted, loc, shellSeen, signals, biosVars, edcVars>>
    /\ UNCHANGED <<hazardVars, cacheVars, memVars, irqVars, CP0>>

---------------------------------------------------------------------------
(* Kernel-call interception (r3000a.h:405-453) *)

\* GPR.n.t1 is GPR.r[9]
RegT1 == 9

\* g_emulator->getRamMask() with 2 MB of RAM
RamMask == W(\h001F, \hFFFF)

\* (currentPC >> 20) & 0xffc
WindowOf(a) == ((a[1] \div 16) \div 4) * 4
LowWindows == {\h000, \h800, \hA00}

EntryA0 == W(\h0000, \h00A0)
EntryB0 == W(\h0000, \h00B0)
EntryC0 == W(\h0000, \h00C0)

\* Fetch addresses: the three entry points, each through one of the three
\* windows (the second one in a RAM mirror), the offset of an entry point in
\* the ROM window, and an address that is no entry point
BiosAddrs ==
    {W(\h0000, \h00A0), W(\h8020, \h00B0), W(\hA000, \h00C0),
     W(\hBFC0, \h00A0), W(\h8000, \h00A4)}

\* The value loaded into t1: a call number below bits that are masked off
CallValues == {W(\h1234, \h013C)}

\* What the hook and its handlers work on; the output of a call starts empty
BiosState == [hz |-> HazardState, mem |-> mem, sink |-> <<>>]

\* The five handlers are declared at r3000a.h:405-409 and defined outside the
\* sources at hand: each one is an observer that leaves its trace in the
\* output.
processA0KernelCall(st, call) ==
    [st EXCEPT !.sink = Append(@, [handler |-> "processA0KernelCall", call |-> call])]
processB0KernelCall(st, call) ==
    [st EXCEPT !.sink = Append(@, [handler |-> "processB0KernelCall", call |-> call])]
logA0KernelCall(st, call) ==
    [st EXCEPT !.sink = Append(@, [handler |-> "logA0KernelCall", call |-> call])]
logB0KernelCall(st, call) ==
    [st EXCEPT !.sink = Append(@, [handler |-> "logB0KernelCall", call |-> call])]
logC0KernelCall(st, call) ==
    [st EXCEPT !.sink = Append(@, [handler |-> "logC0KernelCall", call |-> call])]

\* Mutant of InterceptBIOS: the registers are taken by reference and t1 is
\* masked in place
InterceptBIOSOp_ClobbersT1(st, currentPC, checkPC, log) ==
    LET pcm == WAnd(currentPC, RamMask)
        call == st.hz.GPR[RegT1][2] % 256
        s0 == [st EXCEPT !.hz.GPR[RegT1] = W(0, call)]
        s1 == CASE pcm = EntryA0 -> processA0KernelCall(s0, call)
                [] pcm = EntryB0 -> processB0KernelCall(s0, call)
                [] OTHER -> s0
        s2 == IF log
              THEN CASE pcm = EntryA0 -> logA0KernelCall(s1, call)
                     [] pcm = EntryB0 -> logB0KernelCall(s1, call)
                     [] pcm = EntryC0 -> logC0KernelCall(s1, call)
                     [] OTHER -> s1
              ELSE s1
    IN  IF checkPC /\ WindowOf(currentPC) \notin LowWindows THEN st ELSE s2

\* Mutant of InterceptBIOS: the semantic handlers are called inside the
\* KernelLog test.
InterceptBIOSOp_LogGatesAll(st, currentPC, checkPC, log) ==
    LET pcm == WAnd(currentPC, RamMask)
        call == st.hz.GPR[RegT1][2] % 256
        s1 == CASE pcm = EntryA0 -> processA0KernelCall(st, call)
                [] pcm = EntryB0 -> processB0KernelCall(st, call)
                [] OTHER -> st
        s2 == IF log
              THEN CASE pcm = EntryA0 -> logA0KernelCall(s1, call)
                     [] pcm = EntryB0 -> logB0KernelCall(s1, call)
                     [] pcm = EntryC0 -> logC0KernelCall(s1, call)
                     [] OTHER -> s1
              ELSE st
    IN  IF checkPC /\ WindowOf(currentPC) \notin LowWindows THEN st ELSE s2

\* template <bool checkPC> void InterceptBIOS(uint32_t currentPC); log is the
\* KernelLog debug setting
InterceptBIOSOp(st, currentPC, checkPC, log) ==
    LET pcm == WAnd(currentPC, RamMask)
        call == st.hz.GPR[RegT1][2] % 256
        s1 == CASE pcm = EntryA0 -> processA0KernelCall(st, call)
                [] pcm = EntryB0 -> processB0KernelCall(st, call)
                [] OTHER -> st
        s2 == IF log
              THEN CASE pcm = EntryA0 -> logA0KernelCall(s1, call)
                     [] pcm = EntryB0 -> logB0KernelCall(s1, call)
                     [] pcm = EntryC0 -> logC0KernelCall(s1, call)
                     [] OTHER -> s1
              ELSE s1
    IN  IF checkPC /\ WindowOf(currentPC) \notin LowWindows THEN st ELSE s2

BiosNoOp == [kind |-> "none", addr |-> W0, checkPC |-> TRUE, handlers |-> <<>>]

InterceptBIOS(currentPC, checkPC) ==
    /\ ~aborted
    /\ LET r == InterceptBIOSOp(BiosState, currentPC, checkPC, kernelLog)
       IN  /\ SetHazard(r.hz)
           /\ mem' = r.mem
           /\ sink' = r.sink
           /\ op' = [BiosNoOp EXCEPT !.kind = "InterceptBIOS", !.addr = currentPC,
                                     !.checkPC = checkPC,
                                     !.handlers = r.sink]
    /\ UNCHANGED <<aborted, steps, cacheVars, lastFetch, irqVars, CP0, runVars,
                   kernelLog, prev, edcVars>>

\* The KernelLog debug setting is switched
SetKernelLog(b) ==
    /\ kernelLog # b
    /\ kernelLog' = b
    /\ op' = [BiosNoOp EXCEPT !.kind = "SetKernelLog"]
    /\ UNCHANGED <<hazardVars, cacheVars, memVars, irqVars, CP0, runVars, sink, prev, edcVars>>

---------------------------------------------------------------------------
(* CD-ROM sector codes (iec-60908b-math.cc): the lookup tables, the code   *)
(* that built them and computeEDC                                          *)

Xor16(a, b) == a + b - 2 * And16(a, b)
\* x ^ y, x >> 1 and x >> 8 on 32-bit words
WXor(a, b) == <<Xor16(a[1], b[1]), Xor16(a[2], b[2])>>
WShr1(a) == <<a[1] \div 2, (a[2] \div 2) + (a[1] % 2) * \h8000>>
WShr8(a) == <<a[1] \div \h100, (a[2] \div \h100) + (a[1] % \h100) * \h100>>

\* The tables hold one entry per byte value
LutIndices == 0 .. 255

\* static constexpr uint8_t c_ecc_f_lut[]: entry i is at position i + 1
c_ecc_f_lut == <<
    \h00, \h02, \h04, \h06, \h08, \h0A, \h0C, \h0E, \h10, \h12, \h14, \h16, \h18, \h1A, \h1C, \h1E,
    \h20, \h22, \h24, \h26, \h28, \h2A, \h2C, \h2E, \h30, \h32, \h34, \h36, \h38, \h3A, \h3C, \h3E,
    \h40, \h42, \h44, \h46, \h48, \h4A, \h4C, \h4E, \h50, \h52, \h54, \h56, \h58, \h5A, \h5C, \h5E,
    \h60, \h62, \h64, \h66, \h68, \h6A, \h6C, \h6E, \h70, \h72, \h74, \h76, \h78, \h7A, \h7C, \h7E,
    \h80, \h82, \h84, \h86, \h88, \h8A, \h8C, \h8E, \h90, \h92, \h94, \h96, \h98, \h9A, \h9C, \h9E,
    \hA0, \hA2, \hA4, \hA6, \hA8, \hAA, \hAC, \hAE, \hB0, \hB2, \hB4, \hB6, \hB8, \hBA, \hBC, \hBE,
    \hC0, \hC2, \hC4, \hC6, \hC8, \hCA, \hCC, \hCE, \hD0, \hD2, \hD4, \hD6, \hD8, \hDA, \hDC, \hDE,
    \hE0, \hE2, \hE4, \hE6, \hE8, \hEA, \hEC, \hEE, \hF0, \hF2, \hF4, \hF6, \hF8, \hFA, \hFC, \hFE,
    \h1D, \h1F, \h19, \h1B, \h15, \h17, \h11, \h13, \h0D, \h0F, \h09, \h0B, \h05, \h07, \h01, \h03,
    \h3D, \h3F, \h39, \h3B, \h35, \h37, \h31, \h33, \h2D, \h2F, \h29, \h2B, \h25, \h27, \h21, \h23,
    \h5D, \h5F, \h59, \h5B, \h55, \h57, \h51, \h53, \h4D, \h4F, \h49, \h4B, \h45, \h47, \h41, \h43,
    \h7D, \h7F, \h79, \h7B, \h75, \h77, \h71, \h73, \h6D, \h6F, \h69, \h6B, \h65, \h67, \h61, \h63,
    \h9D, \h9F, \h99, \h9B, \h95, \h97, \h91, \h93, \h8D, \h8F, \h89, \h8B, \h85, \h87, \h81, \h83,
    \hBD, \hBF, \hB9, \hBB, \hB5, \hB7, \hB1, \hB3, \hAD, \hAF, \hA9, \hAB, \hA5, \hA7, \hA1, \hA3,
    \hDD, \hDF, \hD9, \hDB, \hD5, \hD7, \hD1, \hD3, \hCD, \hCF, \hC9, \hCB, \hC5, \hC7, \hC1, \hC3,
    \hFD, \hFF, \hF9, \hFB, \hF5, \hF7, \hF1, \hF3, \hED, \hEF, \hE9, \hEB, \hE5, \hE7, \hE1, \hE3>>

\* static constexpr uint8_t c_ecc_b_lut[]
c_ecc_b_lut == <<
    \h00, \hF4, \hF5, \h01, \hF7, \h03, \h02, \hF6, \hF3, \h07, \h06, \hF2, \h04, \hF0, \hF1, \h05,
    \hFB, \h0F, \h0E, \hFA, \h0C, \hF8, \hF9, \h0D, \h08, \hFC, \hFD, \h09, \hFF, \h0B, \h0A, \hFE,
    \hEB, \h1F, \h1E, \hEA, \h1C, \hE8, \hE9, \h1D, \h18, \hEC, \hED, \h19, \hEF, \h1B, \h1A, \hEE,
    \h10, \hE4, \hE5, \h11, \hE7, \h13, \h12, \hE6, \hE3, \h17, \h16, \hE2, \h14, \hE0, \hE1, \h15,
    \hCB, \h3F, \h3E, \hCA, \h3C, \hC8, \hC9, \h3D, \h38, \hCC, \hCD, \h39, \hCF, \h3B, \h3A, \hCE,
    \h30, \hC4, \hC5, \h31, \hC7, \h33, \h32, \hC6, \hC3, \h37, \h36, \hC2, \h34, \hC0, \hC1, \h35,
    \h20, \hD4, \hD5, \h21, \hD7, \h23, \h22, \hD6, \hD3, \h27, \h26, \hD2, \h24, \hD0, \hD1, \h25,
    \hDB, \h2F, \h2E, \hDA, \h2C, \hD8, \hD9, \h2D, \h28, \hDC, \hDD, \h29, \hDF, \h2B, \h2A, \hDE,
    \h8B, \h7F, \h7E, \h8A, \h7C, \h88, \h89, \h7D, \h78, \h8C, \h8D, \h79, \h8F, \h7B, \h7A, \h8E,
    \h70, \h84, \h85, \h71, \h87, \h73, \h72, \h86, \h83, \h77, \h76, \h82, \h74, \h80, \h81, \h75,
    \h60, \h94, \h95, \h61, \h97, \h63, \h62, \h96, \h93, \h67, \h66, \h92, \h64, \h90, \h91, \h65,
    \h9B, \h6F, \h6E, \h9A, \h6C, \h98, \h99, \h6D, \h68, \h9C, \h9D, \h69, \h9F, \h6B, \h6A, \h9E,
    \h40, \hB4, \hB5, \h41, \hB7, \h43, \h42, \hB6, \hB3, \h47, \h46, \hB2, \h44, \hB0, \hB1, \h45,
    \hBB, \h4F, \h4E, \hBA, \h4C, \hB8, \hB9, \h4D, \h48, \hBC, \hBD, \h49, \hBF, \h4B, \h4A, \hBE,
    \hAB, \h5F, \h5E, \hAA, \h5C, \hA8, \hA9, \h5D, \h58, \hAC, \hAD, \h59, \hAF, \h5B, \h5A, \hAE,
    \h50, \hA4, \hA5, \h51, \hA7, \h53, \h52, \hA6, \hA3, \h57, \h56, \hA2, \h54, \hA0, \hA1, \h55>>

\* static constexpr uint32_t c_edc_lut[]
c_edc_lut == <<
    <<\h0000, \h0000>>, <<\h9091, \h0101>>, <<\h9121, \h0201>>, <<\h01B0, \h0300>>,
    <<\h9241, \h0401>>, <<\h02D0, \h0500>>, <<\h0360, \h0600>>, <<\h93F1, \h0701>>,
    <<\h9481, \h0801>>, <<\h0410, \h0900>>, <<\h05A0, \h0A00>>, <<\h9531, \h0B01>>,
    <<\h06C0, \h0C00>>, <<\h9651, \h0D01>>, <<\h97E1, \h0E01>>, <<\h0770, \h0F00>>,
    <<\h9901, \h1001>>, <<\h0990, \h1100>>, <<\h0820, \h1200>>, <<\h98B1, \h1301>>,
    <<\h0B40, \h1400>>, <<\h9BD1, \h1501>>, <<\h9A61, \h1601>>, <<\h0AF0, \h1700>>,
    <<\h0D80, \h1800>>, <<\h9D11, \h1901>>, <<\h9CA1, \h1A01>>, <<\h0C30, \h1B00>>,
    <<\h9FC1, \h1C01>>, <<\h0F50, \h1D00>>, <<\h0EE0, \h1E00>>, <<\h9E71, \h1F01>>,
    <<\h8201, \h2001>>, <<\h1290, \h2100>>, <<\h1320, \h2200>>, <<\h83B1, \h2301>>,
    <<\h1040, \h2400>>, <<\h80D1, \h2501>>, <<\h8161, \h2601>>, <<\h11F0, \h2700>>,
    <<\h1680, \h2800>>, <<\h8611, \h2901>>, <<\h87A1, \h2A01>>, <<\h1730, \h2B00>>,
    <<\h84C1, \h2C01>>, <<\h1450, \h2D00>>, <<\h15E0, \h2E00>>, <<\h8571, \h2F01>>,
    <<\h1B00, \h3000>>, <<\h8B91, \h3101>>, <<\h8A21, \h3201>>, <<\h1AB0, \h3300>>,
    <<\h8941, \h3401>>, <<\h19D0, \h3500>>, <<\h1860, \h3600>>, <<\h88F1, \h3701>>,
    <<\h8F81, \h3801>>, <<\h1F10, \h3900>>, <<\h1EA0, \h3A00>>, <<\h8E31, \h3B01>>,
    <<\h1DC0, \h3C00>>, <<\h8D51, \h3D01>>, <<\h8CE1, \h3E01>>, <<\h1C70, \h3F00>>,
    <<\hB401, \h4001>>, <<\h2490, \h4100>>, <<\h2520, \h4200>>, <<\hB5B1, \h4301>>,
    <<\h2640, \h4400>>, <<\hB6D1, \h4501>>, <<\hB761, \h4601>>, <<\h27F0, \h4700>>,
    <<\h2080, \h4800>>, <<\hB011, \h4901>>, <<\hB1A1, \h4A01>>, <<\h2130, \h4B00>>,
    <<\hB2C1, \h4C01>>, <<\h2250, \h4D00>>, <<\h23E0, \h4E00>>, <<\hB371, \h4F01>>,
    <<\h2D00, \h5000>>, <<\hBD91, \h5101>>, <<\hBC21, \h5201>>, <<\h2CB0, \h5300>>,
    <<\hBF41, \h5401>>, <<\h2FD0, \h5500>>, <<\h2E60, \h5600>>, <<\hBEF1, \h5701>>,
    <<\hB981, \h5801>>, <<\h2910, \h5900>>, <<\h28A0, \h5A00>>, <<\hB831, \h5B01>>,
    <<\h2BC0, \h5C00>>, <<\hBB51, \h5D01>>, <<\hBAE1, \h5E01>>, <<\h2A70, \h5F00>>,
    <<\h3600, \h6000>>, <<\hA691, \h6101>>, <<\hA721, \h6201>>, <<\h37B0, \h6300>>,
    <<\hA441, \h6401>>, <<\h34D0, \h6500>>, <<\h3560, \h6600>>, <<\hA5F1, \h6701>>,
    <<\hA281, \h6801>>, <<\h3210, \h6900>>, <<\h33A0, \h6A00>>, <<\hA331, \h6B01>>,
    <<\h30C0, \h6C00>>, <<\hA051, \h6D01>>, <<\hA1E1, \h6E01>>, <<\h3170, \h6F00>>,
    <<\hAF01, \h7001>>, <<\h3F90, \h7100>>, <<\h3E20, \h7200>>, <<\hAEB1, \h7301>>,
    <<\h3D40, \h7400>>, <<\hADD1, \h7501>>, <<\hAC61, \h7601>>, <<\h3CF0, \h7700>>,
    <<\h3B80, \h7800>>, <<\hAB11, \h7901>>, <<\hAAA1, \h7A01>>, <<\h3A30, \h7B00>>,
    <<\hA9C1, \h7C01>>, <<\h3950, \h7D00>>, <<\h38E0, \h7E00>>, <<\hA871, \h7F01>>,
    <<\hD801, \h8001>>, <<\h4890, \h8100>>, <<\h4920, \h8200>>, <<\hD9B1, \h8301>>,
    <<\h4A40, \h8400>>, <<\hDAD1, \h8501>>, <<\hDB61, \h8601>>, <<\h4BF0, \h8700>>,
    <<\h4C80, \h8800>>, <<\hDC11, \h8901>>, <<\hDDA1, \h8A01>>, <<\h4D30, \h8B00>>,
    <<\hDEC1, \h8C01>>, <<\h4E50, \h8D00>>, <<\h4FE0, \h8E00>>, <<\hDF71, \h8F01>>,
    <<\h4100, \h9000>>, <<\hD191, \h9101>>, <<\hD021, \h9201>>, <<\h40B0, \h9300>>,
    <<\hD341, \h9401>>, <<\h43D0, \h9500>>, <<\h4260, \h9600>>, <<\hD2F1, \h9701>>,
    <<\hD581, \h9801>>, <<\h4510, \h9900>>, <<\h44A0, \h9A00>>, <<\hD431, \h9B01>>,
    <<\h47C0, \h9C00>>, <<\hD751, \h9D01>>, <<\hD6E1, \h9E01>>, <<\h4670, \h9F00>>,
    <<\h5A00, \hA000>>, <<\hCA91, \hA101>>, <<\hCB21, \hA201>>, <<\h5BB0, \hA300>>,
    <<\hC841, \hA401>>, <<\h58D0, \hA500>>, <<\h5960, \hA600>>, <<\hC9F1, \hA701>>,
    <<\hCE81, \hA801>>, <<\h5E10, \hA900>>, <<\h5FA0, \hAA00>>, <<\hCF31, \hAB01>>,
    <<\h5CC0, \hAC00>>, <<\hCC51, \hAD01>>, <<\hCDE1, \hAE01>>, <<\h5D70, \hAF00>>,
    <<\hC301, \hB001>>, <<\h5390, \hB100>>, <<\h5220, \hB200>>, <<\hC2B1, \hB301>>,
    <<\h5140, \hB400>>, <<\hC1D1, \hB501>>, <<\hC061, \hB601>>, <<\h50F0, \hB700>>,
    <<\h5780, \hB800>>, <<\hC711, \hB901>>, <<\hC6A1, \hBA01>>, <<\h5630, \hBB00>>,
    <<\hC5C1, \hBC01>>, <<\h5550, \hBD00>>, <<\h54E0, \hBE00>>, <<\hC471, \hBF01>>,
    <<\h6C00, \hC000>>, <<\hFC91, \hC101>>, <<\hFD21, \hC201>>, <<\h6DB0, \hC300>>,
    <<\hFE41, \hC401>>, <<\h6ED0, \hC500>>, <<\h6F60, \hC600>>, <<\hFFF1, \hC701>>,
    <<\hF881, \hC801>>, <<\h6810, \hC900>>, <<\h69A0, \hCA00>>, <<\hF931, \hCB01>>,
    <<\h6AC0, \hCC00>>, <<\hFA51, \hCD01>>, <<\hFBE1, \hCE01>>, <<\h6B70, \hCF00>>,
    <<\hF501, \hD001>>, <<\h6590, \hD100>>, <<\h6420, \hD200>>, <<\hF4B1, \hD301>>,
    <<\h6740, \hD400>>, <<\hF7D1, \hD501>>, <<\hF661, \hD601>>, <<\h66F0, \hD700>>,
    <<\h6180, \hD800>>, <<\hF111, \hD901>>, <<\hF0A1, \hDA01>>, <<\h6030, \hDB00>>,
    <<\hF3C1, \hDC01>>, <<\h6350, \hDD00>>, <<\h62E0, \hDE00>>, <<\hF271, \hDF01>>,
    <<\hEE01, \hE001>>, <<\h7E90, \hE100>>, <<\h7F20, \hE200>>, <<\hEFB1, \hE301>>,
    <<\h7C40, \hE400>>, <<\hECD1, \hE501>>, <<\hED61, \hE601>>, <<\h7DF0, \hE700>>,
    <<\h7A80, \hE800>>, <<\hEA11, \hE901>>, <<\hEBA1, \hEA01>>, <<\h7B30, \hEB00>>,
    <<\hE8C1, \hEC01>>, <<\h7850, \hED00>>, <<\h79E0, \hEE00>>, <<\hE971, \hEF01>>,
    <<\h7700, \hF000>>, <<\hE791, \hF101>>, <<\hE621, \hF201>>, <<\h76B0, \hF300>>,
    <<\hE541, \hF401>>, <<\h75D0, \hF500>>, <<\h7460, \hF600>>, <<\hE4F1, \hF701>>,
    <<\hE381, \hF801>>, <<\h7310, \hF900>>, <<\h72A0, \hFA00>>, <<\hE231, \hFB01>>,
    <<\h71C0, \hFC00>>, <<\hE151, \hFD01>>, <<\hE0E1, \hFE01>>, <<\h7070, \hFF00>>>>

\* table[i] in C
LutAt(table, i) == table[i + 1]

\* build(): size_t j = (i << 1) ^ (i & 0x80 ? 0x11d : 0)
BuildEccJ(i) == Xor16(i * 2, IF (i \div \h80) % 2 = 1 THEN \h11D ELSE 0)

\* Mutant of build(): the feedback word of the EDC is the one of CRC-32
BuildEdcStep_Crc32(edc) ==
    WXor(WShr1(edc), IF edc[2] % 2 = 1 THEN W(\hEDB8, \h8320) ELSE W0)

\* build(): edc = (edc >> 1) ^ (edc & 1 ? 0xd8018001 : 0)
BuildEdcStep(edc) ==
    WXor(WShr1(edc), IF edc[2] % 2 = 1 THEN W(\hD801, \h8001) ELSE W0)

\* build(): for (j = 0; j < 8; j++) on uint32_t edc = i
RECURSIVE BuildEdcLoop(_, _)
BuildEdcLoop(edc, j) == IF j = 0 THEN edc ELSE BuildEdcLoop(BuildEdcStep(edc), j - 1)
BuildEdc(i) == BuildEdcLoop(W(0, i), 8)

\* The uint8_t value stored by m_ecc_f_lut[i] = j
BuildEccF(i) == BuildEccJ(i) % \h100

\* edc = (edc >> 8) ^ c_edc_lut[(edc ^ *src++) & 0xff] for one byte
EdcByte(edc, byte) ==
    WXor(WShr8(edc), LutAt(c_edc_lut, Xor16(edc[2] % \h100, byte)))

\* Mutant of computeEDC: the bytes are taken from the end of the buffer
RECURSIVE computeEDCOp_Backwards(_, _, _)
computeEDCOp_Backwards(edc, src, size) ==
    IF size = 0 THEN edc
    ELSE computeEDCOp_Backwards(EdcByte(edc, src[size]), src, size - 1)

\* uint32_t computeEDC(uint32_t edc, const uint8_t *src, size_t size): the
\* first size bytes of src are consumed in order
RECURSIVE computeEDCOp(_, _, _)
computeEDCOp(edc, src, size) ==
    IF size = 0 THEN edc
    ELSE computeEDCOp(EdcByte(edc, Head(src)), Tail(src), size - 1)

\* Inputs: seeds, bytes, and the chunks a caller passes
EdcMaxLen == 3
EdcSeeds == {W0, W(\hFFFF, \hFFFF), W(\h1234, \h5678)}
EdcBytes == {\h00, \h01, \h80, \hFF}
EdcChunks == {<<>>} \cup {<<x>> : x \in EdcBytes} \cup {<<x, y>> : x, y \in EdcBytes}

LutNoOp == [kind |-> "none", i |-> 0, f |-> 0, b |-> 0, edc |-> W0, chunk |-> <<>>]

\* One lookup of each table, as eccWritePQ and computeEDC do
Lookup(i) ==
    /\ op' = [LutNoOp EXCEPT !.kind = "lookup", !.i = i,
                             !.f = LutAt(c_ecc_f_lut, i),
                             !.b = LutAt(c_ecc_b_lut, i),
                             !.edc = LutAt(c_edc_lut, i)]
    /\ UNCHANGED <<hazardVars, cacheVars, memVars, irqVars, CP0, prev, engineVars>>

\* A caller that checksums a buffer piece by piece: each call continues from
\* the value the call before returned
computeEDC(chunk) ==
    /\ Len(edcSrc) + Len(chunk) <= EdcMaxLen
    /\ edcValue' = computeEDCOp(edcValue, chunk, Len(chunk))
    /\ edcSrc' = edcSrc \o chunk
    /\ op' = [LutNoOp EXCEPT !.kind = "computeEDC", !.chunk = chunk]
    /\ UNCHANGED <<hazardVars, cacheVars, memVars, irqVars, CP0, prev, runVars,
                   biosVars, edcSeed>>

EdcInitWith(e) ==
    /\ edcSeed = e
    /\ edcSrc = <<>>
    /\ edcValue = e

---------------------------------------------------------------------------
(* Specifications *)

HazardNext ==
    \/ \E r \in LoadRegs \cup {BadReg}, a \in LoadArgs : delayedLoadRef(r, a[2])
    \/ \E r \in LoadRegs \cup {BadReg}, a \in LoadArgs : delayedLoad(r, a[1], a[2])
    \/ \E j \in JumpArgs : delayedPCLoad(j[1], j[2])
    \/ flushCurrentDelayedLoad

StepNext == \E i \in Instrs : Step(i)

HistoryInit ==
    /\ op = NoOp
    /\ prev = NoOp

\* bool m_shellStarted = false; the system starts stopped, nothing was logged
RunInit ==
    /\ m_shellStarted = FALSE
    /\ running = FALSE
    /\ loc = "idle"
    /\ shellSeen = FALSE
    /\ signals = 0
    /\ kernelLog = FALSE
    /\ sink = <<>>

\* ... and no checksum is under way
EngineInit ==
    /\ RunInit
    /\ EdcInitWith(W0)

CacheNext ==
    \/ \E a \in FetchAddrs : readICache(a)
    \/ \E a \in FetchAddrs : flushICacheLine(a)
    \/ invalidateCache
    \/ \E c \in ClearArgs : Clear(c[1], c[2])
    \/ \E a \in StoreAddrs : WriteMem(a, NewCode)
    \/ Reset

IrqNext ==
    \/ \E s \in Sources, n \in ECycles : scheduleInterrupt(s, n)
    \/ branchTest
    \/ AdvanceCycle
    \/ Reset

ArmNext ==
    \/ \E s \in Sources, n \in WideECycles : scheduleInterrupt(s, n)
    \/ branchTest
    \/ AdvanceCycle

ResetNext ==
    \/ \E a \in FetchAddrs : readICache(a)
    \/ \E s \in Sources, n \in ECycles : scheduleInterrupt(s, n)
    \/ Reset

RunNext ==
    \/ Execute
    \/ hasToRun
    \/ \E i \in RunInstrs : ExecuteStep(i)
    \/ stop
    \/ start
    \/ Reset

BiosNext ==
    \/ \E a \in BiosAddrs, c \in BOOLEAN : InterceptBIOS(a, c)
    \/ \E b \in BOOLEAN : SetKernelLog(b)
    \/ \E v \in CallValues : delayedLoad(RegT1, v, MaskNone)
    \/ flushCurrentDelayedLoad

\* Fetch addresses in the uncached mirror, one of them over the same physical
\* word as a cached address
AddrK1Conflict == W(\hA000, \h1014)
UncachedAddrs == {AddrK1, AddrK1Conflict}

BypassNext ==
    \/ \E a \in StoreAddrs \cup UncachedAddrs : readICache(a)
    \/ \E a \in UncachedAddrs \cup {AddrK0} : flushICacheLine(a)
    \/ \E a \in StoreAddrs : WriteMem(a, NewCode)

\* Loads, jumps and flushes with a Reset at any point between them
PowerCycleNext ==
    \/ \E r \in LoadRegs, a \in LoadArgs : delayedLoad(r, a[1], a[2])
    \/ \E j \in JumpArgs : delayedPCLoad(j[1], j[2])
    \/ flushCurrentDelayedLoad
    \/ Reset

LutNext == \E i \in LutIndices : Lookup(i)

EdcNext == \E chunk \in EdcChunks : computeEDC(chunk)

ExcNext ==
    \/ \E e \in Exceptions, bd \in BOOLEAN, cop0 \in BOOLEAN : exception(e, bd, cop0)
    \/ \E v \in StatusValues : WriteStatus(v)

\* Any sequence of calls of the hazard operations
\* Power-on state: the member initialisers of R3000Acpu, then Reset()
InitHazard ==
    /\ HazardInit
    /\ CacheInit
    /\ IrqInitWith(0)
    /\ ExcInit
    /\ EngineInit
    /\ HistoryInit

InitIrq ==
    /\ HazardInit
    /\ CacheInit
    /\ \E lt \in LowestTargetInit : IrqInitWith(lt)
    /\ ExcInit
    /\ EngineInit
    /\ HistoryInit

SpecHazard == InitHazard /\ [][HazardNext]_vars

\* The execution loop, one instruction per step
SpecStep == InitHazard /\ [][StepNext]_vars

\* Fetches, invalidations and stores in any order
SpecCache == InitHazard /\ [][CacheNext]_vars

\* Scheduling, branch tests and resets in any order
SpecIrq == InitIrq /\ [][IrqNext]_vars

\* Scheduling with short and long delays
SpecArm == InitIrq /\ [][ArmNext]_vars

\* Resets between fetches and arming
SpecReset == InitHazard /\ [][ResetNext]_vars

\* The caller of Execute, stop requests and resets
SpecRun == InitHazard /\ [][RunNext]_vars

\* The thread inside Execute keeps going: a check or an instruction that can
\* run does run
SpecRunLive ==
    /\ InitHazard
    /\ [][RunNext]_vars
    /\ WF_vars(hasToRun)
    /\ WF_vars(\E i \in RunInstrs : ExecuteStep(i))

\* The hook called at any fetch address, between loads of t1
SpecBios == InitHazard /\ [][BiosNext]_vars

\* Fetches and line flushes through the uncached mirror next to cached ones
SpecBypass == InitHazard /\ [][BypassNext]_vars

\* Resets between the hazard operations
SpecPowerCycle == InitHazard /\ [][PowerCycleNext]_vars

\* A checksum started from any of the seeds
InitEdc ==
    /\ HazardInit
    /\ CacheInit
    /\ IrqInitWith(0)
    /\ ExcInit
    /\ RunInit
    /\ \E e \in EdcSeeds : EdcInitWith(e)
    /\ HistoryInit

\* Lookups of the three tables at any index
SpecLut == InitHazard /\ [][LutNext]_vars

\* A buffer checksummed in pieces
SpecEdc == InitEdc /\ [][EdcNext]_vars

\* Exceptions raised between instructions
SpecExc == InitHazard /\ [][ExcNext]_vars

---------------------------------------------------------------------------
(* Claims about the hazard buffers *)

Merge(old, mask, value) == WOr(WAnd(old, mask), value)
IsLoad(o) == o.kind = "step" /\ o.instr = "load"
IsJump(o) == o.kind = "step" /\ o.instr = "jump"

\* C1: general-purpose register 0 reads as zero after any sequence of
\* delayedLoad / delayedLoadRef / flushCurrentDelayedLoad calls, also after a
\* delayed load of a non-zero value into register 0 has been flushed.
C1_ZeroRegisterReadsZero == GPR[0] = W0

\* C2 as stated: a load issued at step n leaves the register, as read at step
\* n+1, at the value it held when the load was issued, and the read at step
\* n+2 sees the masked merge of the loaded value.
C2_LatencyAsStated ==
    [][/\ IsLoad(op') => GPR'[op'.reg] = GPR[op'.reg]
       /\ (IsLoad(op) /\ op'.kind = "step") =>
              GPR'[op.reg] = Merge(GPR[op.reg], op.mask, op.value)]_vars

\* C2 as amended: the read at step n+1 does not see the load of step n; it sees
\* the value the register held when the load was issued, with the load of step
\* n-1 merged in when that one targeted the same register.  The read at step
\* n+2 sees the masked merge of the value loaded at step n.
C2_OneInstructionLatency ==
    [][/\ IsLoad(op') =>
              GPR'[op'.reg] =
                  IF IsLoad(op) /\ op.reg = op'.reg
                  THEN Merge(GPR[op'.reg], op.mask, op.value)
                  ELSE GPR[op'.reg]
       /\ (IsLoad(op) /\ op'.kind = "step") =>
              GPR'[op.reg] = Merge(GPR[op.reg], op.mask, op.value)]_vars

\* C2 witness: two steps after a load into a register holding another value,
\* the register holds the masked merge; one step after it did not.
C2_Witness ==
    /\ steps = 3
    /\ IsLoad(prev) /\ prev.reg = 1 /\ prev.value = ValB /\ prev.mask = MaskLWL0
    /\ op.kind = "step" /\ op.instr = "nop"
    /\ GPR[1] = Merge(ValA, MaskLWL0, ValB)
    /\ GPR[1] # ValA /\ GPR[1] # ValB

\* C3 as stated: after any branch or jump at step n, step n+1 fetches the
\* address following the branch and step n+2 fetches the target.
C3_DelaySlotAsStated ==
    [][(IsJump(op) /\ op'.kind = "step") =>
           /\ op'.fetched = WAdd(op.fetched, 4)
           /\ pc' = op.value]_vars

\* C3 as amended: the same, for a branch or jump that is not itself the delay
\* slot of a branch or jump issued at step n-1.
C3_DelaySlot ==
    [][(IsJump(op) /\ ~IsJump(prev) /\ op'.kind = "step") =>
           /\ op'.fetched = WAdd(op.fetched, 4)
           /\ pc' = op.value]_vars

\* C3 witness: the delay slot after a jump has run from the sequential address
\* and the next fetch address is the jump's target.
C3_Witness ==
    /\ steps = 2
    /\ IsJump(prev) /\ prev.value = TargetB
    /\ op.kind = "step" /\ op.fetched = WAdd(prev.fetched, 4)
    /\ pc = TargetB

---------------------------------------------------------------------------
(* Claims about the instruction cache *)

IsFetch(o) == o.kind = "readICache"

---------------------------------------------------------------------------
(* Claims about interrupt scheduling *)

\* C6: scheduleInterrupt on a source that is already armed changes nothing:
\* not the armed mask, no deadline, not the cached lowest target.
C6_ScheduleArmedIsNoOp ==
    [][(op'.kind = "scheduleInterrupt" /\ Armed(interrupt, op'.source)) =>
           UNCHANGED <<interrupt, intTargets, lowestTarget, cycle>>]_vars

\* C6 witness: a second schedule request arrived for an armed source, at a
\* time when it would have stored another deadline, below the cached lowest.
C6_Witness ==
    /\ op.kind = "scheduleInterrupt" /\ op.wasArmed
    /\ Armed(interrupt, op.source)
    /\ intTargets[op.source] # cycle + op.eCycle
    /\ cycle + op.eCycle < lowestTarget

Position(q, s) == CHOOSE i \in 1 .. Len(q) : q[i] = s
Dispatched(q, s) == \E i \in 1 .. Len(q) : q[i] = s

---------------------------------------------------------------------------
(* Claims about exception entry *)

\* C8: after exception(e, bd, cop0) the cause register has its branch-delay
\* bit set exactly when bd was true, whatever e and cop0.
C8_BranchDelayBit ==
    op.kind = "exception" => (HasBit(CP0.Cause, CauseBD) <=> op.bd)

\* C8 witness: an exception taken in a delay slot without the coprocessor
\* flag, and one taken outside a delay slot with it.
C8_Witness ==
    /\ op.kind = "exception"
    /\ op.bd /\ ~op.cop0 /\ op.e = 12
    /\ HasBit(CP0.Cause, CauseBD)

\* C10: the cached lowest target is at most the deadline of every armed source.
C10_LowestTargetBelowArmed ==
    \A s \in 0 .. NumSources - 1 :
        Armed(interrupt, s) => lowestTarget <= intTargets[s]

\* C10 witness: after a branch test dispatched the source that set the cached
\* lowest target, another source is still armed and the cached value is stale.
C10_Witness ==
    /\ op.kind = "branchTest" /\ Len(op.dispatched) = 1
    /\ lowestTarget = intTargets[op.dispatched[1]]
    /\ lowestTarget > 0
    /\ \E s \in Sources : Armed(interrupt, s) /\ lowestTarget < intTargets[s]


---------------------------------------------------------------------------
(* Claims about the branch test and arming *)

IsArmedBit(mask, s) == (mask \div (2 ^ s)) % 2 = 1
MinOf(a, b) == IF a < b THEN a ELSE b

C12_NoLostInterrupt ==
    [][op'.kind = "branchTest" =>
          /\ \A s \in 0 .. NumSources - 1 :
                 (IsArmedBit(interrupt, s) /\ intTargets[s] <= cycle)
                     => /\ Dispatched(op'.dispatched, s)
                        /\ ~IsArmedBit(interrupt', s)
          /\ \A s \in 0 .. NumSources - 1 :
                 ~(IsArmedBit(interrupt', s) /\ intTargets'[s] <= cycle')]_vars

\* A branch test dispatched two sources, one of them after its deadline had
\* passed.
C12_Witness ==
    /\ op.kind = "branchTest"
    /\ Len(op.dispatched) = 2
    /\ intTargets[op.dispatched[1]] < cycle
    /\ interrupt # 0

\* C13: scheduleInterrupt(s, n) on a source that is not armed arms s, stores
\* the deadline cycle + n x scale(s) (the product taken in single precision,
\* as the code takes it), sets the cached lowest target to the minimum of its
\* previous value and the new deadline, and leaves every other source's armed
\* bit and deadline, and the cycle counter, unchanged.
C13_ArmingPostState ==
    [][(op'.kind = "scheduleInterrupt" /\ ~IsArmedBit(interrupt, op'.source)) =>
          LET s == op'.source
              d == cycle + ScaledCycles(op'.eCycle, s)
          IN  /\ IsArmedBit(interrupt', s)
              /\ intTargets'[s] = d
              /\ lowestTarget' = MinOf(lowestTarget, d)
              /\ cycle' = cycle
              /\ interrupt' = interrupt + 2 ^ s
              /\ \A t \in (0 .. IntTargetSlots - 1) \ {s} :
                     intTargets'[t] = intTargets[t]]_vars

\* A source was armed with the long delay at a non-zero cycle while another
\* source was armed with an earlier deadline, which stays the lowest target.
C13_Witness ==
    /\ op.kind = "scheduleInterrupt"
    /\ ~op.wasArmed
    /\ op.eCycle = BigECycle
    /\ cycle > 0
    /\ intTargets[op.source] = cycle + ScaledCycles(BigECycle, op.source)
    /\ lowestTarget < intTargets[op.source]
    /\ \E t \in Sources \ {op.source} :
           IsArmedBit(interrupt, t) /\ intTargets[t] = lowestTarget

---------------------------------------------------------------------------
(* Claims about exception entry *)

\* C14: on exception dispatch EPC receives the current pc when the faulting
\* instruction is not in a delay slot and pc - 4 when it is, the interrupt
\* enable bit of Status is cleared, and the delayed PC of the current slot is
\* set to the vector base selected by the boot-vector bit of Status.
C14_ExceptionReturnAddress ==
    op.kind = "exception" =>
        /\ CP0.EPC = IF op.bd THEN WSub(op.pc, 4) ELSE op.pc
        /\ CP0.Status[2] % 2 = 0
        /\ m_delayedLoadInfo[m_currentDelayedLoad].pcActive
        /\ m_delayedLoadInfo[m_currentDelayedLoad].pcValue =
               IF HasBit(CP0.Status, StatusBEV) THEN VectorBoot ELSE VectorRam

\* An exception in a delay slot was taken with interrupts enabled and the
\* vector in RAM selected.
C14_Witness ==
    /\ op.kind = "exception"
    /\ op.bd
    /\ CP0.EPC = WSub(op.pc, 4)
    /\ CP0.EPC # op.pc
    /\ CP0.Status[2] % 64 = 4
    /\ ~HasBit(CP0.Status, StatusBEV)
    /\ m_delayedLoadInfo[m_currentDelayedLoad].pcValue = VectorRam

---------------------------------------------------------------------------
(* Claims about the hazard-buffer range check *)

\* C18: delayedLoadRef and delayedLoad with reg >= 32 abort, and at the abort
\* neither delayed-load slot, nor the slot index, nor any register, nor the
\* pc has been modified.
C18_OutOfRangeAborts ==
    [][(op'.kind \in {"delayedLoadRef", "delayedLoad"} /\ op'.reg >= 32) =>
          /\ aborted'
          /\ UNCHANGED <<GPR, m_delayedLoadInfo, m_currentDelayedLoad, pc>>]_vars

\* The abort happened while a load was pending in the current slot, a delayed
\* PC was pending and a register held a committed value.
C18_Witness ==
    /\ aborted
    /\ op.kind \in {"delayedLoadRef", "delayedLoad"}
    /\ op.reg >= 32
    /\ m_delayedLoadInfo[m_currentDelayedLoad].active
    /\ m_delayedLoadInfo[m_currentDelayedLoad].pcActive
    /\ \E r \in Regs : GPR[r] # W0

---------------------------------------------------------------------------
(* Claims about Reset *)

\* C19: immediately after Reset no interrupt source is armed and every
\* instruction-cache entry is invalid, and the first readICache of a cacheable
\* address after Reset misses, reads memory and returns the memory word,
\* whatever was cached or armed before.
C19_ResetFlushesAndMasks ==
    [][/\ op'.kind = "Reset" =>
              /\ interrupt' = 0
              /\ \A i \in CacheIdx : iCacheAddr'[i] = WInvalid
       /\ (/\ op'.kind = "readICache"
           /\ Cacheable(op'.addr)
           /\ \A b \in FetchAddrs : ~lastFetch[b].ok) =>
              /\ op'.path = "miss"
              /\ op'.reads # <<>>
              /\ op'.result = read32(mem, op'.addr)]_vars

\* Reset ran while a source was armed and a line was cached.
C19_Witness ==
    /\ op.kind = "Reset"
    /\ op.wasArmed
    /\ op.wasCached
    /\ interrupt = 0
    /\ \A i \in CacheIdx : iCacheAddr[i] = WInvalid

---------------------------------------------------------------------------
(* Claims about the run loop *)

\* C15: over any sequence of hasToRun checks and interleaved Reset calls,
\* ShellReached is signalled at the first check that finds pc at 0x80030000
\* and at no other check, and nothing else signals it.
C15_ShellReachedOnce ==
    [][/\ op'.kind = "hasToRun" =>
              signals' = signals + (IF pc = ShellPC /\ ~shellSeen THEN 1 ELSE 0)
       /\ op'.kind # "hasToRun" => signals' = signals]_vars

\* After the event was signalled and a Reset ran, a later check found pc at
\* the shell address again and did not signal.
C15_Witness ==
    /\ signals = 1
    /\ op.kind = "hasToRun"
    /\ op.pc = ShellPC
    /\ ~op.signal
    /\ prev.kind = "Reset"

\* C20: hasToRun returns the running flag whatever the shell latch is, an
\* instruction runs only after a check that returned true, and once a stop
\* is requested the instruction in flight completes, no further instruction
\* is started and Execute returns.
C20_CooperativeStop ==
    /\ [][(op'.kind = "hasToRun" =>
               (op'.result = running /\ loc' = IF running THEN "step" ELSE "idle"))
           /\ (steps' # steps => (loc = "step" /\ loc' = "check"))]_vars
    /\ \A n \in 0 .. MaxSteps - 1 :
           (loc = "step" /\ ~running /\ steps = n)
               ~> (loc = "idle" /\ ~running /\ steps = n + 1)
    /\ \A n \in 0 .. MaxSteps :
           (loc = "check" /\ ~running /\ steps = n)
               ~> (loc = "idle" /\ ~running /\ steps = n)

\* A stop was requested while an instruction was in flight; the instruction
\* completed, the next check returned false although the shell latch was
\* set, and Execute returned.
C20_Witness ==
    /\ loc = "idle"
    /\ op.kind = "hasToRun"
    /\ ~op.result
    /\ prev.kind = "step"
    /\ prev.stopped
    /\ m_shellStarted

---------------------------------------------------------------------------
(* Claims about kernel-call interception *)

\* C16: for every guest state and fetch address, the register file, the
\* program counter, the delayed-load slots and memory after the hook has run
\* are what they are without it; only the output of the handlers changes.
C16_InterceptionNonInterfering ==
    [][op'.kind = "InterceptBIOS" =>
          UNCHANGED <<GPR, pc, m_delayedLoadInfo, m_currentDelayedLoad, mem>>]_vars

\* The hook ran both a semantic and a logging handler while t1 held bits
\* above the call number and a load was pending.
C16_Witness ==
    /\ op.kind = "InterceptBIOS"
    /\ Len(op.handlers) = 2
    /\ GPR[RegT1][1] # 0
    /\ \E i \in {0, 1} : m_delayedLoadInfo[i].active

\* C17: InterceptBIOS invokes a handler only when the fetch address masked
\* to the RAM size is 0xa0, 0xb0 or 0xc0 and the window of the fetch address
\* is 0x000, 0x800 or 0xa00, in both instantiations of checkPC.
C17_InterceptionGating ==
    (op.kind = "InterceptBIOS" /\ op.handlers # <<>>) =>
        /\ WAnd(op.addr, RamMask) \in {EntryA0, EntryB0, EntryC0}
        /\ WindowOf(op.addr) \in LowWindows

---------------------------------------------------------------------------
(* Claims about the cache fill and the uncached path *)

LineReads(a) == <<WLine(a), WAdd(WLine(a), 4), WAdd(WLine(a), 8), WAdd(WLine(a), 12)>>

\* C21: on a miss for a cacheable address readICache reads each of the four
\* words of the aligned line from memory exactly once and nothing else, and
\* returns the word it stored in the cache for the address; on a hit it reads
\* no memory.
C21_OneReadPerFill ==
    (IsFetch(op) /\ Cacheable(op.addr)) =>
        /\ op.path = "miss" =>
               /\ op.reads = LineReads(op.addr)
               /\ op.result = iCacheCode[pcCacheOf(op.addr)]
        /\ op.path = "hit" => op.reads = <<>>

\* C22: readICache of an address whose top byte is neither 0x00 nor 0x80
\* issues exactly one memory read, at that address, returns what it read and
\* leaves every tag and cached word as they were; flushICacheLine of such an
\* address changes neither the cache nor memory.
C22_NonCacheableBypass ==
    [][/\ (IsFetch(op') /\ pcBankOf(op'.addr) \notin {\h00, \h80}) =>
              /\ op'.reads = <<op'.addr>>
              /\ op'.result = mem[Phys(op'.addr)]
              /\ UNCHANGED <<cacheVars, mem>>
       /\ (op'.kind = "flushICacheLine" /\ pcBankOf(op'.addr) \notin {\h00, \h80}) =>
              UNCHANGED <<cacheVars, mem>>]_vars

\* C22 witness: with the line of the same physical word resident in the cache
\* and memory changed since, a fetch through the uncached mirror returned the
\* new memory word and the resident line still holds the old one.
C22_Witness ==
    /\ IsFetch(op) /\ op.addr = AddrK1Conflict /\ op.path = "uncached"
    /\ op.reads = <<AddrK1Conflict>>
    /\ op.result = NewCode
    /\ iCacheAddr[pcCacheOf(AddrConflict)] = pcOffsetOf(AddrConflict)
    /\ iCacheCode[pcCacheOf(AddrConflict)] = MemInit[Phys(AddrConflict)]

---------------------------------------------------------------------------
(* Claims about committing the hazard slots *)

CurrentSlot == m_delayedLoadInfo[m_currentDelayedLoad]

\* C23: when the current slot holds both an active register load and an active
\* delayed PC, one flush commits both: the load value is merged into the
\* register, the PC is redirected to the pending target, and neither the load
\* nor the PC sub-slot is active afterwards.
C23_AtomicCommit ==
    [][(op'.kind = "flush" /\ CurrentSlot.active /\ CurrentSlot.pcActive) =>
           /\ GPR' = [GPR EXCEPT ![CurrentSlot.index] =
                          Merge(@, CurrentSlot.mask, CurrentSlot.value)]
           /\ pc' = CurrentSlot.pcValue
           /\ ~m_delayedLoadInfo'[m_currentDelayedLoad'].active
           /\ ~m_delayedLoadInfo'[m_currentDelayedLoad'].pcActive]_vars

IsDelayedLoad(o) == o.kind = "delayedLoad" /\ o.reg < 32

\* C25: after delayedLoad has been called twice on the same slot with no
\* flush in between, the slot holds the second call's index, value and mask
\* only; the flush that follows writes the second call's register, merged
\* from the second call's value and mask, and no other register, so the
\* first call's register is not written.
C25_OnePendingLoadPerSlot ==
    [][/\ (IsDelayedLoad(op) /\ IsDelayedLoad(op')) =>
              /\ m_delayedLoadInfo'[m_currentDelayedLoad'].active
              /\ m_delayedLoadInfo'[m_currentDelayedLoad'].index = op'.reg
              /\ m_delayedLoadInfo'[m_currentDelayedLoad'].value = op'.value
              /\ m_delayedLoadInfo'[m_currentDelayedLoad'].mask = op'.mask
              /\ GPR' = GPR
       /\ (IsDelayedLoad(prev) /\ IsDelayedLoad(op) /\ op'.kind = "flush") =>
              /\ GPR' = [GPR EXCEPT ![op.reg] = Merge(@, op.mask, op.value)]
              /\ (prev.reg # op.reg => GPR'[prev.reg] = GPR[prev.reg])
              /\ ~m_delayedLoadInfo'[m_currentDelayedLoad'].active]_vars

\* C25 witness: a load of register 1 and then a load of register 2 were
\* recorded in the same slot with no flush in between; the slot holds the
\* second load only and register 1 has not been written.
C25_Witness ==
    /\ prev.kind = "delayedLoad" /\ prev.reg = 1 /\ prev.value = ValB
    /\ prev.mask = MaskLWL0
    /\ op.kind = "delayedLoad" /\ op.reg = 2 /\ op.value = ValA
    /\ CurrentSlot.active
    /\ CurrentSlot.index = 2 /\ CurrentSlot.value = ValA /\ CurrentSlot.mask = MaskNone
    /\ GPR[1] = W0 /\ GPR[2] = W0

\* ~x on a 32-bit word
WNot(a) == <<\hFFFF - a[1], \hFFFF - a[2]>>

\* C26 as stated: a flush of a pending load with mask m and value v into a
\* register holding o replaces the bits selected by m by the bits of v and
\* keeps every other bit of o.
C26_MaskAsStated ==
    [][(op'.kind = "flush" /\ CurrentSlot.active) =>
           GPR'[CurrentSlot.index] =
               WOr(WAnd(CurrentSlot.value, CurrentSlot.mask),
                   WAnd(GPR[CurrentSlot.index], WNot(CurrentSlot.mask)))]_vars

\* C26 as amended: the bits selected by m are the bits kept from o; the
\* register becomes (o & m) | v, so every bit not selected by m is the bit of
\* v and every bit selected by m is the bit of o or-ed with the bit of v.
C26_MaskOnCommit ==
    [][(op'.kind = "flush" /\ CurrentSlot.active) =>
           /\ WAnd(GPR'[CurrentSlot.index], WNot(CurrentSlot.mask)) =
                  WAnd(CurrentSlot.value, WNot(CurrentSlot.mask))
           /\ WAnd(GPR'[CurrentSlot.index], CurrentSlot.mask) =
                  WAnd(WOr(GPR[CurrentSlot.index], CurrentSlot.value),
                       CurrentSlot.mask)]_vars

\* C26 witness: an LWL-style load of 0xab with mask 0x00ffffff was flushed
\* into a register holding 0x12345600: the top byte was replaced, the low
\* three bytes were kept and or-ed with the value.
C26_Witness ==
    /\ op.kind = "flush"
    /\ prev.kind = "delayedLoad" /\ prev.reg = 1
    /\ prev.value = ValB /\ prev.mask = MaskLWL0
    /\ GPR[1] = W(\h0034, \h56AB)
    /\ ~CurrentSlot.active

IsDelaying(o) == IsLoad(o) \/ IsJump(o)
BackToBack(first, second) ==
    IsDelaying(first) /\ IsDelaying(second) /\ ~(IsJump(first) /\ IsJump(second))
OtherSlot == m_delayedLoadInfo[1 - m_currentDelayedLoad]

\* What instruction o left pending in slot s
PendingIn(s, o) ==
    /\ IsLoad(o) => (s.active /\ s.index = o.reg /\ s.value = o.value /\ s.mask = o.mask)
    /\ IsJump(o) => (s.pcActive /\ s.pcValue = o.value /\ s.fromLink = o.link)

\* What the commit of instruction o changes
CommittedNow(o) ==
    /\ GPR' = IF IsLoad(o)
              THEN [GPR EXCEPT ![o.reg] = Merge(@, o.mask, o.value)]
              ELSE GPR
    /\ IsJump(o) => pc' = o.value

\* C24: of two delay-inducing instructions issued in consecutive steps (two
\* loads, or a load and a branch, to the same or different registers) the
\* first is still pending, as issued, when the step of the second begins; that
\* step commits the first and nothing of the second, whose record is then
\* pending as issued in the other slot; and the step after it commits the
\* second.
C24_SlotAlternation ==
    [][/\ BackToBack(op, op') =>
              /\ PendingIn(OtherSlot, op)
              /\ CommittedNow(op)
              /\ PendingIn(m_delayedLoadInfo'[1 - m_currentDelayedLoad'], op')
              /\ m_currentDelayedLoad' = 1 - m_currentDelayedLoad
       /\ (BackToBack(prev, op) /\ op'.kind = "step") => CommittedNow(op)]_vars

\* C24 witness: a load of register 1 and then a jump were issued in
\* consecutive steps; the load is committed, the jump is pending in the slot
\* that is not current and the PC has not been redirected yet.
C24_Witness ==
    /\ steps = 2
    /\ IsLoad(prev) /\ prev.reg = 1 /\ prev.value = ValA
    /\ IsJump(op) /\ op.value = TargetA
    /\ GPR[1] = ValA
    /\ OtherSlot.pcActive /\ OtherSlot.pcValue = TargetA
    /\ ~CurrentSlot.active
    /\ pc = WAdd(op.fetched, 4)

---------------------------------------------------------------------------
(* Claims about invalidation and stale lines *)

\* The entry at byte offset i of the tag array is invalid when no word-aligned
\* cacheable address that indexes it can match its tag: a match needs
\* tag = pc & 0xffffff with pc & 0xfff = i.
EntryInvalid(tags, i) == ~(tags[i][1] < \h100 /\ tags[i][2] % \h1000 = i)
LineOf(a) == {LineIndex(pcCacheOf(a)) + k : k \in LineOffsets}

\* C27: flushICacheLine(pc) for a cacheable pc makes the four entries of the
\* line at index pc & 0xff0 invalid, whichever address occupied it, and
\* leaves the tag and the word of every entry of every other line unchanged;
\* invalidateCache makes every entry invalid.
C27_LineInvalidationLocal ==
    [][/\ (op'.kind = "flushICacheLine" /\ Cacheable(op'.addr)) =>
              /\ \A i \in LineOf(op'.addr) : EntryInvalid(iCacheAddr', i)
              /\ \A i \in CacheIdx \ LineOf(op'.addr) :
                     /\ iCacheAddr'[i] = iCacheAddr[i]
                     /\ iCacheCode'[i] = iCacheCode[i]
       /\ op'.kind = "invalidateCache" =>
              \A i \in CacheIdx : EntryInvalid(iCacheAddr', i)]_vars

\* C27 witness: flushICacheLine of an address has left the four entries of
\* its line with the flushed tag, which no fetch matches, while the next line
\* is still resident with its tag and word.
C27_Witness ==
    /\ op.kind = "flushICacheLine" /\ op.addr = AddrConflict
    /\ \A i \in LineOf(AddrK0) :
           iCacheAddr[i] = WFlushed /\ EntryInvalid(iCacheAddr, i)
    /\ iCacheAddr[pcCacheOf(AddrNextLine)] = pcOffsetOf(AddrNextLine)
    /\ iCacheCode[pcCacheOf(AddrNextLine)] = MemInit[Phys(AddrNextLine)]

\* C28: while a cacheable address is resident (it has been fetched and since
\* then no flushICacheLine, invalidateCache or Clear touched its line and no
\* other block was filled into it), readICache of the address returns the
\* word its last fetch returned and reads no memory, whatever memory holds by
\* now.
C28_StaleUntilInvalidated ==
    \A a \in FetchAddrs :
        (Cacheable(a) /\ lastFetch[a].ok /\ ~lastFetch[a].evicted) =>
            LET r == readICacheOp(CacheState, a)
            IN  /\ r.path = "hit"
                /\ r.reads = <<>>
                /\ r.result = lastFetch[a].w
                /\ r.st = CacheState

\* C28 witness: the word at a resident address was overwritten in memory and
\* the address fetched again: the fetch returned the word of the fill, which
\* is not what memory holds.
C28_Witness ==
    /\ IsFetch(op) /\ op.addr = AddrConflict /\ op.path = "hit"
    /\ lastFetch[AddrConflict].ok /\ ~lastFetch[AddrConflict].evicted
    /\ op.result = MemInit[Phys(AddrConflict)]
    /\ mem[Phys(AddrConflict)] = NewCode
    /\ op.result # mem[Phys(AddrConflict)]

---------------------------------------------------------------------------
(* Claims about the dispatch of kernel calls and of exceptions *)

IsSemantic(h) == h.handler \in {"processA0KernelCall", "processB0KernelCall"}
IsLogging(h) == h.handler \in {"logA0KernelCall", "logB0KernelCall", "logC0KernelCall"}
\* The fetch passed the window test, or the instantiation has none
Intercepted(o) ==
    o.kind = "InterceptBIOS" /\ (o.checkPC => WindowOf(o.addr) \in LowWindows)
SemanticFor(a, call) ==
    CASE WAnd(a, RamMask) = EntryA0 -> <<[handler |-> "processA0KernelCall", call |-> call]>>
      [] WAnd(a, RamMask) = EntryB0 -> <<[handler |-> "processB0KernelCall", call |-> call]>>
      [] OTHER -> <<>>
LoggingFor(a, call) ==
    CASE WAnd(a, RamMask) = EntryA0 -> <<[handler |-> "logA0KernelCall", call |-> call]>>
      [] WAnd(a, RamMask) = EntryB0 -> <<[handler |-> "logB0KernelCall", call |-> call]>>
      [] WAnd(a, RamMask) = EntryC0 -> <<[handler |-> "logC0KernelCall", call |-> call]>>
      [] OTHER -> <<>>

\* C29: for an intercepted fetch the semantic handler of 0xa0 or 0xb0 runs
\* with the call number t1 & 0xff whether the kernel-log flag is set or not;
\* the logging handler of 0xa0, 0xb0 or 0xc0 runs exactly when the flag is
\* set; and the semantic handlers run for a fetch are the same with the flag
\* set and with the flag clear.
C29_DispatchIndependent ==
    [][Intercepted(op') =>
           /\ SelectSeq(op'.handlers, IsSemantic) =
                  SemanticFor(op'.addr, GPR[RegT1][2] % \h100)
           /\ SelectSeq(op'.handlers, IsLogging) =
                  IF kernelLog THEN LoggingFor(op'.addr, GPR[RegT1][2] % \h100)
                  ELSE <<>>
           /\ SelectSeq(InterceptBIOSOp(BiosState, op'.addr, op'.checkPC, TRUE).sink,
                        IsSemantic) =
              SelectSeq(InterceptBIOSOp(BiosState, op'.addr, op'.checkPC, FALSE).sink,
                        IsSemantic)]_vars

\* C29 witness: with the kernel-log flag clear, a fetch at 0xb0 through a RAM
\* mirror ran processB0KernelCall with the low byte of t1 and no logging
\* handler.
C29_Witness ==
    /\ ~kernelLog
    /\ op.kind = "InterceptBIOS" /\ op.addr = W(\h8020, \h00B0)
    /\ GPR[RegT1] = W(\h1234, \h013C)
    /\ op.handlers = <<[handler |-> "processB0KernelCall", call |-> \h3C]>>

\* The cause field, bits 2..6, and everything that is neither the field nor
\* one of the two flags
CauseField == W(\h0000, \h007C)
CauseOther == W(\h6FFF, \hFF83)
CauseAfter(e) == exceptionEnumOp(ExcState, e, FALSE, FALSE).CP0.Cause

\* C30: exception(e, bd, cop0) dispatches with the cause code e << 2: the
\* class value is what bits 2..6 of the cause hold, no bit outside that field
\* is set by the class, and two different classes give two different codes.
C30_CauseCodeEncoding ==
    /\ op.kind = "exception" =>
           /\ WAnd(CP0.Cause, CauseField) = W(0, op.e * 4)
           /\ (CP0.Cause[2] \div 4) % 32 = op.e
           /\ WAnd(CP0.Cause, CauseOther) = W0
    /\ \A e1, e2 \in Exceptions :
           e1 # e2 => WAnd(CauseAfter(e1), CauseField) # WAnd(CauseAfter(e2), CauseField)

\* C30 witness: the highest class, ArithmeticOverflow = 12, raised in a delay
\* slot, left 12 in bits 2..6 of the cause, 0x30, below the delay-slot bit.
C30_Witness ==
    /\ op.kind = "exception" /\ op.e = 12 /\ op.bd /\ ~op.cop0
    /\ CP0.Cause = W(\h8000, \h0030)

---------------------------------------------------------------------------
(* Claims about aliases and the shape of the cache *)

\* C31: after flushICacheLine called with any alias of a physical address
\* (the 0x00, the 0x80 or the uncached 0xa0 window), the next readICache of
\* that physical address through a cacheable window misses and reads memory
\* again.
C31_InvalidationCoversAliases ==
    [][(/\ op.kind = "flushICacheLine"
        /\ IsFetch(op') /\ Cacheable(op'.addr)
        /\ Phys(op'.addr) = Phys(op.addr)) =>
           /\ op'.path = "miss"
           /\ op'.reads # <<>>
           /\ op'.result = mem[Phys(op'.addr)]]_vars

\* The two tags the code stores in an entry that holds no address
TagInvalid(t) == t \in {WInvalid, WFlushed}
LineBases == {LineIndex(i) : i \in CacheIdx}

\* C32: every entry whose tag is neither 0xffffffff nor 0x000000ff, stored at
\* byte index i, holds a tag t with t & 0xfff = i and t <= 0xffffff; the four
\* entries of a line are all invalid or hold the four consecutive word
\* addresses of one aligned 16-byte block; and a word-aligned fetch whose
\* entry is invalid does not hit.
C32_CacheWellFormed ==
    /\ \A i \in CacheIdx :
           ~TagInvalid(iCacheAddr[i]) =>
               /\ iCacheAddr[i][2] % \h1000 = i
               /\ iCacheAddr[i][1] < \h100
    /\ \A l \in LineBases :
           \/ \A k \in LineOffsets : TagInvalid(iCacheAddr[l + k])
           \/ /\ ~TagInvalid(iCacheAddr[l])
              /\ iCacheAddr[l][2] % \h10 = 0
              /\ \A k \in LineOffsets : iCacheAddr[l + k] = WAdd(iCacheAddr[l], k)
    /\ \A a \in FetchAddrs :
           (Cacheable(a) /\ TagInvalid(iCacheAddr[pcCacheOf(a)])) =>
               readICacheOp(CacheState, a).path = "miss"

\* C32 witness: one line holds the four word addresses of a block fetched
\* through an address in its middle, the line next to it has been filled and
\* flushed and holds the flushed tag in its four entries.
C32_Witness ==
    /\ \A k \in LineOffsets :
           iCacheAddr[LineIndex(pcCacheOf(AddrConflict)) + k] =
               WAdd(WLine(pcOffsetOf(AddrConflict)), k)
    /\ \A k \in LineOffsets :
           iCacheAddr[LineIndex(pcCacheOf(AddrNextLine)) + k] = WFlushed
    /\ op.kind = "flushICacheLine" /\ op.addr = AddrNextLine

---------------------------------------------------------------------------
(* Claims about the hazard slots across a reset and their frame *)

\* C33: immediately after Reset neither delayed-load slot has an active
\* register load or an active delayed PC, and the flush that follows a Reset
\* commits nothing to a register or to the PC.
C33_ResetLeavesNoHazard ==
    [][/\ op'.kind = "Reset" =>
              \A s \in {0, 1} :
                  /\ ~m_delayedLoadInfo'[s].active
                  /\ ~m_delayedLoadInfo'[s].pcActive
       /\ (op.kind = "Reset" /\ op'.kind = "flush") =>
              UNCHANGED <<GPR, pc>>]_vars

LoadFields(s) == <<s.active, s.index, s.mask, s.value>>
PCFields(s) == <<s.pcActive, s.pcValue, s.fromLink>>
SlotAfter == m_delayedLoadInfo'[m_currentDelayedLoad]
OtherSlotKept ==
    /\ m_currentDelayedLoad' = m_currentDelayedLoad
    /\ m_delayedLoadInfo'[1 - m_currentDelayedLoad] =
           m_delayedLoadInfo[1 - m_currentDelayedLoad]

\* C34: delayedPCLoad changes only pcActive, pcValue and fromLink of the
\* current slot; delayedLoadRef and delayedLoad change only active, index,
\* mask and value of the current slot; flushCurrentDelayedLoad changes only
\* the target register and the active flag of the current slot; none of them
\* changes the other slot or m_currentDelayedLoad.
C34_SubSlotsIndependent ==
    [][/\ op'.kind = "delayedPCLoad" =>
              /\ LoadFields(SlotAfter) = LoadFields(CurrentSlot)
              /\ UNCHANGED <<GPR, pc>>
              /\ OtherSlotKept
       /\ (op'.kind \in {"delayedLoadRef", "delayedLoad"} /\ op'.reg < 32) =>
              /\ PCFields(SlotAfter) = PCFields(CurrentSlot)
              /\ UNCHANGED <<GPR, pc>>
              /\ OtherSlotKept
       /\ op'.kind = "flush" =>
              /\ SlotAfter = [CurrentSlot EXCEPT !.active = FALSE]
              /\ \A r \in Regs : r # CurrentSlot.index => GPR'[r] = GPR[r]
              /\ UNCHANGED pc
              /\ OtherSlotKept]_vars

\* C34 witness: a jump was recorded in a slot that holds a pending load; the
\* load is still pending as recorded and no register has changed.
C34_Witness ==
    /\ op.kind = "delayedPCLoad" /\ op.value = TargetB
    /\ prev.kind = "delayedLoad" /\ prev.reg = 2 /\ prev.value = ValB
    /\ LoadFields(CurrentSlot) = <<TRUE, 2, MaskLWL0, ValB>>
    /\ PCFields(CurrentSlot) = <<TRUE, TargetB, TRUE>>
    /\ GPR[2] = W0

\* C35: flushCurrentDelayedLoad on an active slot sets the target register to
\* (old AND mask) OR value, which with mask 0 is the loaded value, and clears
\* the active flag; a flush of an inactive slot, so also a second flush with
\* no load in between, changes no register.
C35_CommittedExactlyOnce ==
    [][op'.kind = "flush" =>
           /\ CurrentSlot.active =>
                  /\ GPR'[CurrentSlot.index] =
                         WOr(WAnd(GPR[CurrentSlot.index], CurrentSlot.mask),
                             CurrentSlot.value)
                  /\ CurrentSlot.mask = W0 => GPR'[CurrentSlot.index] = CurrentSlot.value
                  /\ ~SlotAfter.active
           /\ ~CurrentSlot.active => GPR' = GPR
           /\ op.kind = "flush" => GPR' = GPR]_vars

\* C35 witness: a masked load was flushed into a register that held another
\* value, then the slot was flushed again: the register holds the merge and
\* the slot is inactive.
C35_Witness ==
    /\ prev.kind = "flush" /\ op.kind = "flush"
    /\ ~CurrentSlot.active
    /\ CurrentSlot.index = 1 /\ CurrentSlot.value = ValB /\ CurrentSlot.mask = MaskLWL0
    /\ GPR[1] = W(\h0034, \h56AB)

---------------------------------------------------------------------------
(* Claims about the deadline arithmetic *)

\* C36: with the scale factor 1.0 the deadline stored by
\* scheduleInterrupt(s, n) is the current cycle plus n for every 32-bit n,
\* also above 2^24, and is never earlier than the current cycle.
C36_DeadlineExact ==
    (op.kind = "scheduleInterrupt" /\ ~op.wasArmed) =>
        /\ intTargets[op.source] = cycle + op.eCycle
        /\ intTargets[op.source] >= cycle

---------------------------------------------------------------------------
(* Claims about the sector codes *)

\* C37: for every index i in 0..255, c_ecc_f_lut[i] is
\* ((i << 1) XOR (0x11d if bit 7 of i is set, else 0)) mod 256,
\* c_ecc_b_lut[i XOR c_ecc_f_lut[i]] is i, the map i -> i XOR c_ecc_f_lut[i]
\* being a permutation of 0..255, and c_edc_lut[i] is i after eight steps of
\* edc = (edc >> 1) XOR (0xd8018001 if edc is odd, else 0).
C37_TablesMatchGenerator ==
    /\ op.kind = "lookup" =>
           /\ op.f = BuildEccF(op.i)
           /\ LutAt(c_ecc_b_lut, Xor16(op.i, op.f)) = op.i
           /\ op.edc = BuildEdc(op.i)
    /\ {Xor16(i, LutAt(c_ecc_f_lut, i)) : i \in LutIndices} = LutIndices
    /\ Len(c_ecc_f_lut) = 256 /\ Len(c_ecc_b_lut) = 256 /\ Len(c_edc_lut) = 256

\* C37 witness: the last entries of the three tables have been looked up, at
\* an index with bit 7 set.
C37_Witness ==
    /\ op.kind = "lookup" /\ op.i = 255
    /\ op.f = \hE3
    /\ op.b = \h55
    /\ op.edc = W(\h7070, \hFF00)
    /\ LutAt(c_ecc_b_lut, Xor16(255, op.f)) = 255

\* C38: computeEDC over A and then, from the value returned, over B gives
\* what computeEDC gives over A followed by B from the same seed, and
\* computeEDC with size 0 returns the seed unchanged.
C38_IncrementalFold ==
    [][op'.kind = "computeEDC" =>
           LET A == edcSrc
               B == op'.chunk
           IN  /\ computeEDCOp(computeEDCOp(edcSeed, A, Len(A)), B, Len(B)) =
                      computeEDCOp(edcSeed, A \o B, Len(A) + Len(B))
               /\ edcValue' = computeEDCOp(edcSeed, A \o B, Len(A) + Len(B))
               /\ computeEDCOp(edcValue, B, 0) = edcValue
               /\ computeEDCOp(edcSeed, A \o B, 0) = edcSeed]_vars

\* C38 witness: three different bytes were checksummed from a non-zero seed
\* in two calls, one byte and then two; the value is that of one call over
\* the three bytes and differs from the seed and from the value of the first
\* call.
C38_Witness ==
    /\ op.kind = "computeEDC" /\ op.chunk = <<\h80, \hFF>>
    /\ edcSeed = W(\h1234, \h5678)
    /\ edcSrc = <<\h01, \h80, \hFF>>
    /\ edcValue = computeEDCOp(edcSeed, edcSrc, 3)
    /\ edcValue # edcSeed
    /\ edcValue # computeEDCOp(edcSeed, <<\h01>>, 1)

=============================================================================
